---- MODULE Spec2Model ----
(***************************************************************************)
(* Model of the product-fact consensus engine of briefgenv2                *)
(* (src/consensus.py) and of the claim list its caller builds              *)
(* (src/product_research.py).                                              *)
(*                                                                         *)
(* Strings the code parses or rewrites (claim values) are sequences of     *)
(* code points, so that _norm_phrase and _normalize_units are computed     *)
(* character by character.  Keys and source URLs are only ever    *)
(* compared, so they stay atomic strings.  Confidences and thresholds are  *)
(* integers in hundredths (0.95 is 95); scores of _pick_numeric are in     *)
(* tenths (2.5 is 25).                                                     *)
(***************************************************************************)
EXTENDS Integers, Sequences, FiniteSets, TLC

\* ------------------------------------------------------------------ bounds
\* Longest claim list the model builds.
MaxClaims == 3

\* ------------------------------------------------------- generic helpers
Min(a, b) == IF a <= b THEN a ELSE b

Range(s) == { s[i] : i \in DOMAIN s }

\* Python slice seq[:n]
Take(s, n) == SubSeq(s, 1, Min(n, Len(s)))

\* Python list comprehension [x for x in s if Test(x)], order kept
RECURSIVE SelectIdx(_, _, _)
SelectIdx(s, keep, i) ==
    IF i > Len(s) THEN << >>
    ELSE (IF i \in keep THEN << s[i] >> ELSE << >>) \o SelectIdx(s, keep, i + 1)

\* ------------------------------------------------------------- characters
\* A character is its code point: "0".."9" are 48..57, "A".."Z" 65..90,
\* "a".."z" 97..122.
IsDigit(c) == c \in 48..57

\* \s of the regular expressions, and the characters str.strip() removes
IsSpace(c) == c = 32 \/ c \in 9..13

\* \w of the regular expressions ("_" is 95)
IsWord(c) == c \in 48..57 \/ c \in 65..90 \/ c \in 97..122 \/ c = 95

\* str.lower() on one character
LowerChar(c) == IF c \in 65..90 THEN c + 32 ELSE c

\* str.lower()
RECURSIVE Lower(_)
Lower(s) == IF s = << >> THEN << >> ELSE << LowerChar(Head(s)) >> \o Lower(Tail(s))

\* str.strip()
RECURSIVE LStrip(_)
LStrip(s) == IF s # << >> /\ IsSpace(Head(s)) THEN LStrip(Tail(s)) ELSE s

RECURSIVE RStrip(_)
RStrip(s) ==
    IF s # << >> /\ IsSpace(s[Len(s)]) THEN RStrip(SubSeq(s, 1, Len(s) - 1)) ELSE s

Strip(s) == RStrip(LStrip(s))

\* ------------------------------------------------------------ _norm_phrase
\* characters kept by re.sub(r"[^\w\s×x\.\-:/]", "", s)
\* ("×" is 215, "." 46, "-" 45, ":" 58, "/" 47)
PhraseKept(c) == IsWord(c) \/ IsSpace(c) \/ c \in { 215, 46, 45, 58, 47 }

RECURSIVE DropOthers(_)
DropOthers(s) ==
    IF s = << >> THEN << >>
    ELSE (IF PhraseKept(Head(s)) THEN << Head(s) >> ELSE << >>) \o DropOthers(Tail(s))

\* re.sub(r"\s+", " ", s): every run of whitespace becomes one blank
RECURSIVE CollapseSpaces(_)
CollapseSpaces(s) ==
    IF s = << >> THEN << >>
    ELSE IF IsSpace(Head(s))
         THEN << 32 >> \o CollapseSpaces(LStrip(Tail(s)))
         ELSE << Head(s) >> \o CollapseSpaces(Tail(s))

norm_phrase(s) == CollapseSpaces(DropOthers(Lower(Strip(s))))

\* -------------------------------------------------------- _normalize_units
\* [\d\.] of the mass pattern
IsNumChar(c) == IsDigit(c) \/ c = 46

\* s[k..] starts with the characters of p
HasPrefixAt(s, k, p) ==
    /\ k >= 1
    /\ k + Len(p) - 1 <= Len(s)
    /\ \A i \in 1..Len(p) : s[k + i - 1] = p[i]

\* last index of the run of [\d\.] characters that contains index i
RECURSIVE RunEnd(_, _)
RunEnd(s, i) == IF i < Len(s) /\ IsNumChar(s[i + 1]) THEN RunEnd(s, i + 1) ELSE i

\* first index at or after k that is not whitespace (\s*)
RECURSIVE SkipSpaces(_, _)
SkipSpaces(s, k) == IF k <= Len(s) /\ IsSpace(s[k]) THEN SkipSpaces(s, k + 1) ELSE k

\* the alternation (kg|g|lbs?|pounds|oz) tried at index k, "" when none matches
\* ("k" is 107, "g" 103, "l" 108, "b" 98, "s" 115, "o" 111, "z" 122, ...)
UnitAt(s, k) ==
    IF HasPrefixAt(s, k, << 107, 103 >>) THEN "kg"
    ELSE IF HasPrefixAt(s, k, << 103 >>) THEN "g"
    ELSE IF HasPrefixAt(s, k, << 108, 98, 115 >>) THEN "lbs"
    ELSE IF HasPrefixAt(s, k, << 108, 98 >>) THEN "lb"
    ELSE IF HasPrefixAt(s, k, << 112, 111, 117, 110, 100, 115 >>) THEN "pounds"
    ELSE IF HasPrefixAt(s, k, << 111, 122 >>) THEN "oz"
    ELSE ""

\* the pattern ([\d\.]+)\s*(kg|g|lbs?|pounds|oz) matches with group 1 starting at i
MassMatchAt(s, i) ==
    /\ IsNumChar(s[i])
    /\ UnitAt(s, SkipSpaces(s, RunEnd(s, i) + 1)) # ""

\* re.search: the leftmost match, as [start, stop, unit] of group 1 and group 2
NoMatch == [ start |-> 0, stop |-> 0, unit |-> "" ]

\* the match whose group 1 is s[i..j]
MatchFrom(s, i, j) == [ start |-> i, stop |-> j, unit |-> UnitAt(s, SkipSpaces(s, j + 1)) ]

\* the match at the least of the start positions, if there is one
LeftmostMatch(s, starts) ==
    IF starts = {} THEN NoMatch
    ELSE MatchFrom(s, CHOOSE x \in starts : \A y \in starts : x <= y,
                   RunEnd(s, CHOOSE x \in starts : \A y \in starts : x <= y))

MassSearch(s) == LeftmostMatch(s, { i \in DOMAIN s : MassMatchAt(s, i) })

\* float(text) raises ValueError unless text has a digit and at most one dot
FloatParses(t) ==
    /\ \E i \in DOMAIN t : IsDigit(t[i])
    /\ Cardinality({ i \in DOMAIN t : t[i] = 46 }) <= 1

DigitVal(c) == c - 48

\* decimal digits read as a natural number
RECURSIVE DigitsToNat(_)
DigitsToNat(t) ==
    IF t = << >> THEN 0
    ELSE 10 * DigitsToNat(SubSeq(t, 1, Len(t) - 1)) + DigitVal(t[Len(t)])

\* float(text) in thousandths; digits after the third decimal are dropped
FloatThousandths(t) ==
    LET dots == { i \in DOMAIN t : t[i] = 46 }
        dot  == IF dots = {} THEN Len(t) + 1 ELSE CHOOSE i \in dots : TRUE
        ip   == SubSeq(t, 1, dot - 1)
        fp   == SubSeq(t, dot + 1, Len(t)) \o << 48, 48, 48 >>
    IN  1000 * DigitsToNat(ip) + DigitsToNat(SubSeq(fp, 1, 3))

\* the quantity read as kilograms whatever its unit
KgPerUnit_unit_ignored(u) == 100000

\* kilograms per unit, in 1e-5 kg (pint: lb = 0.45359237 kg, oz = 0.028349523 kg)
KgPerUnit(u) ==
    CASE u = "kg" -> 100000
      [] u = "g" -> 100
      [] u \in { "lb", "lbs", "pounds" } -> 45359
      [] u = "oz" -> 2835

\* q.to(UREG.kg).magnitude rounded as "{:.2f}" rounds it, in hundredths of a kg
KgHundredths(thousandths, u) ==
    LET whole == (thousandths \div 1000) * KgPerUnit(u)
        rest == (whole % 1000) * 1000 + (thousandths % 1000) * KgPerUnit(u)
    IN  whole \div 1000 + (rest + 500000) \div 1000000

RECURSIVE NatToDigits(_)
NatToDigits(n) ==
    IF n < 10 THEN << 48 + n >>
    ELSE NatToDigits(n \div 10) \o << 48 + (n % 10) >>

\* f"{kg:.2f} kg"
FormatKg(h) ==
    NatToDigits(h \div 100) \o << 46, 48 + ((h \div 10) % 10), 48 + (h % 10) >>
        \o << 32, 107, 103 >>

\* str.replace("x", "×")
RECURSIVE ReplaceX(_)
ReplaceX(s) ==
    IF s = << >> THEN << >>
    ELSE << IF Head(s) = 120 THEN 215 ELSE Head(s) >> \o ReplaceX(Tail(s))

\* qty = float(m.group(1)); ...; return f"{kg:.2f} kg", value when float() raises
MassToKg(value, txt, unit) ==
    IF ~FloatParses(txt) THEN value
    ELSE FormatKg(KgHundredths(FloatThousandths(txt), unit))

\* the branch of the keys "weight" and "load_capacity": m is the match in low
NormalizeMass(value, low, m) ==
    IF m = NoMatch THEN value
    ELSE MassToKg(value, SubSeq(low, m.start, m.stop), m.unit)

\* ureg: the module-level UREG is a UnitRegistry (pint imported) or None
normalize_units(ureg, key, value) ==
    IF ~ureg THEN value
    ELSE IF key \in { "weight", "load_capacity" }
    THEN NormalizeMass(value, Lower(value), MassSearch(Lower(value)))
    ELSE IF key \in { "dimensions", "packed_size", "screen", "seat_height" }
    THEN ReplaceX(value)
    ELSE value

\* the exception the mass branch ends in, "" when it returns: float(m.group(1))
\* raises ValueError
MassException(low, m) ==
    IF m # NoMatch /\ ~FloatParses(SubSeq(low, m.start, m.stop)) THEN "ValueError" ELSE ""

\* the exception raised inside the try block, "" when there is none
UnitsBodyException(ureg, key, value) ==
    IF ureg /\ key \in { "weight", "load_capacity" }
    THEN MassException(Lower(value), MassSearch(Lower(value)))
    ELSE ""

\* a handler that lets every exception through
except_nothing(exc) == FALSE

\* except Exception: catches whatever the block raised
except_Exception(exc) == exc # ""

\* how a call of _normalize_units ends: an exception leaves it only when the
\* handler does not catch it; otherwise it returns a string
normalize_units_call(ureg, key, value) ==
    IF UnitsBodyException(ureg, key, value) # ""
         /\ ~except_Exception(UnitsBodyException(ureg, key, value))
    THEN [ raised |-> TRUE, value |-> << >> ]
    ELSE [ raised |-> FALSE, value |-> normalize_units(ureg, key, value) ]

\* values the extractor finds on those pages, as code points
\* "0.95 kg"
W095 == << 48, 46, 57, 53, 32, 107, 103 >>
\* "1.1 kg"
W11 == << 49, 46, 49, 32, 107, 103 >>
\* "2.2 lb"
W22lb == << 50, 46, 50, 32, 108, 98 >>
\* "1 kg"
W1kg == << 49, 32, 107, 103 >>
\* "5 kg"
W5kg == << 53, 32, 107, 103 >>
\* "Steel"
Steel == << 83, 116, 101, 101, 108 >>
\* "Nylon"
Nylon == << 78, 121, 108, 111, 110 >>
\* "Mesh seat."
MeshA == << 77, 101, 115, 104, 32, 115, 101, 97, 116, 46 >>
\* "mesh seat"
MeshB == << 109, 101, 115, 104, 32, 115, 101, 97, 116 >>
\* "Do not overload"
Overload == << 68, 111, 32, 110, 111, 116, 32, 111, 118, 101, 114, 108, 111, 97, 100 >>

\* ------------------------------------------------------------------ Claim
\* keys that _is_numeric_like accepts
NUMERIC_KEYS ==
    { "weight", "capacity", "battery_life", "power", "screen", "ip_rating",
      "dimensions", "load_capacity", "packed_size", "seat_height" }

is_numeric_like(key) == key \in NUMERIC_KEYS

\* A Claim as research_product builds it; consolidate_claims reads key, value,
\* source and snippet only.
Claim(k, v, src, kd, sc) ==
    [ key |-> k, value |-> v, source |-> src, snippet |-> "", kind |-> kd, score |-> sc ]

\* ------------------------------------------------------ dict / list helpers
\* keys of a dict filled in list order: each distinct item at its first occurrence
FirstOccurrences(s) ==
    SelectIdx(s, { i \in DOMAIN s : \A j \in 1..(i - 1) : s[j] # s[i] }, 1)

\* Grouping "for c in lst: d[norm(c)].append(c)", given norms[i] = norm(lst[i]):
\* the keys of d in insertion order, and the list d holds under key k
BucketKeys(norms) == FirstOccurrences(norms)

Bucket(lst, norms, k) == SelectIdx(lst, { i \in DOMAIN lst : norms[i] = k }, 1)

\* max(keys, key=...): the index of the first key, in iteration order, whose
\* score is maximal, given scores[i] = the score of keys[i]
ArgMaxFirst(scores) ==
    LET best == { i \in DOMAIN scores : \A j \in DOMAIN scores : scores[j] <= scores[i] }
    IN  CHOOSE i \in best : \A j \in best : i <= j

\* [{"url": c.source, "snippet": c.snippet} for c in lst]
SourcesOf(lst) == [ i \in DOMAIN lst |-> [ url |-> lst[i].source, snippet |-> lst[i].snippet ] ]

\* -------------------------------------------------------- is_manufacturer
\* The callable consolidate_claims receives: its default never recognises a
\* manufacturer; a caller's callable recognises the brand's own domain.
ManufacturerUrls == { "acme.com" }

IsManufacturerFns == { "default", "brand_domain" }

is_manufacturer(fn, url) == fn = "brand_domain" /\ url \in ManufacturerUrls

\* all(...) written for any(...): the bonus only when every member is the manufacturer's
AllManufacturer(fn, vals) == \A i \in DOMAIN vals : is_manufacturer(fn, vals[i].source)

\* any(is_manufacturer(v.source, brand) for v in vals)
AnyManufacturer(fn, vals) == \E i \in DOMAIN vals : is_manufacturer(fn, vals[i].source)

\* ------------------------------------------------------------ _pick_numeric
\* score_group without the manufacturer boost
score_group_count_only(fn, vals) == 10 * Len(vals)

\* score_group, in tenths
score_group(fn, vals) == 10 * Len(vals) + (IF AnyManufacturer(fn, vals) THEN 25 ELSE 0)

\* conf without the clip min(0.95, ...)
numeric_conf_unclipped(fn, chosen) ==
    45 + 15 * Len(chosen) + (IF AnyManufacturer(fn, chosen) THEN 25 ELSE 0)

\* conf of the chosen group, in hundredths
numeric_conf(fn, chosen) ==
    Min(95, 45 + 15 * Len(chosen) + (IF AnyManufacturer(fn, chosen) THEN 25 ELSE 0))

\* norm of every claim of the list, in list order
RECURSIVE UnitNorms(_, _)
UnitNorms(claims, ureg) ==
    IF claims = << >> THEN << >>
    ELSE << normalize_units(ureg, Head(claims).key, Head(claims).value) >>
             \o UnitNorms(Tail(claims), ureg)

\* the groups by_norm holds, in insertion order of their keys
RECURSIVE GroupsOf(_, _, _, _)
GroupsOf(claims, norms, keys, i) ==
    IF i > Len(keys) THEN << >>
    ELSE << Bucket(claims, norms, keys[i]) >> \o GroupsOf(claims, norms, keys, i + 1)

\* [score_group(by_norm[k]) for k in by_norm.keys()]
RECURSIVE ScoresOf(_, _)
ScoresOf(fn, groups) ==
    IF groups = << >> THEN << >>
    ELSE << score_group(fn, Head(groups)) >> \o ScoresOf(fn, Tail(groups))

\* return best_norm, conf, sources
NumericResult(fn, best_norm, chosen) ==
    [ value |-> best_norm, conf |-> numeric_conf(fn, chosen), sources |-> SourcesOf(chosen) ]

\* the part of _pick_numeric after by_norm is filled: keys and groups of by_norm
PickBestScore(fn, keys, groups, best) == NumericResult(fn, keys[best], groups[best])

PickOfGroups(fn, keys, groups) ==
    PickBestScore(fn, keys, groups, ArgMaxFirst(ScoresOf(fn, groups)))

PickOfKeys(claims, fn, norms, keys) ==
    PickOfGroups(fn, keys, GroupsOf(claims, norms, keys, 1))

PickOfNorms(claims, fn, norms) == PickOfKeys(claims, fn, norms, BucketKeys(norms))

pick_numeric(claims, fn, ureg) == PickOfNorms(claims, fn, UnitNorms(claims, ureg))

\* ------------------------------------------------------- consolidate_claims
\* the non-numeric branch: winner by member count among the _norm_phrase buckets
RECURSIVE PhraseNorms(_)
PhraseNorms(lst) ==
    IF lst = << >> THEN << >>
    ELSE << norm_phrase(Head(lst).value) >> \o PhraseNorms(Tail(lst))

phrase_conf(fn, chosen) ==
    Min(90, 40 + 20 * Len(chosen) + (IF AnyManufacturer(fn, chosen) THEN 25 ELSE 0))

\* [len(bucket[k]) for k in bucket.keys()]
RECURSIVE SizesOf(_)
SizesOf(groups) ==
    IF groups = << >> THEN << >> ELSE << Len(Head(groups)) >> \o SizesOf(Tail(groups))

\* value, conf and sources of the entry made from the chosen bucket
PhraseResult(fn, chosen) ==
    [ value |-> chosen[1].value, conf |-> phrase_conf(fn, chosen), sources |-> SourcesOf(chosen) ]

PhraseOfGroups(fn, groups) == PhraseResult(fn, groups[ArgMaxFirst(SizesOf(groups))])

PhraseOfNorms(lst, fn, norms) ==
    PhraseOfGroups(fn, GroupsOf(lst, norms, BucketKeys(norms), 1))

pick_phrase(lst, fn) == PhraseOfNorms(lst, fn, PhraseNorms(lst))

\* val, conf, srcs of the winner of one key
pick_spec(key, lst, fn, ureg) ==
    IF is_numeric_like(key) THEN pick_numeric(lst, fn, ureg) ELSE pick_phrase(lst, fn)

\* if conf >= min_confidence: specs_out.append(...)
SpecEntryIf(key, p, min_confidence) ==
    IF p.conf >= min_confidence
    THEN << [ key |-> key, value |-> p.value, sources |-> p.sources, confidence |-> p.conf ] >>
    ELSE << >>

\* an entry appended for every value of the key instead of for the winner only
RECURSIVE EntriesEachValue(_, _, _, _, _, _, _)
EntriesEachValue(key, lst, values, i, min_confidence, fn, ureg) ==
    IF i > Len(values) THEN << >>
    ELSE SpecEntryIf(key,
                     pick_spec(key,
                               SelectIdx(lst, { j \in DOMAIN lst : lst[j].value = values[i] }, 1),
                               fn, ureg),
                     min_confidence)
             \o EntriesEachValue(key, lst, values, i + 1, min_confidence, fn, ureg)

spec_entries_each_value(key, lst, min_confidence, fn, ureg) ==
    IF key = "feature" \/ key = "disclaimer" THEN << >>
    ELSE EntriesEachValue(key, lst, FirstOccurrences([ i \in DOMAIN lst |-> lst[i].value ]), 1,
                          min_confidence, fn, ureg)

\* the spec entry of one key of by_key, or no entry
spec_entries(key, lst, min_confidence, fn, ureg) ==
    IF key = "feature" \/ key = "disclaimer" THEN << >>
    ELSE SpecEntryIf(key, pick_spec(key, lst, fn, ureg), min_confidence)

\* conf of a feature or disclaimer group
feature_conf(fn, lst) ==
    Min(90, 35 + 15 * Len(lst) + (IF AnyManufacturer(fn, lst) THEN 25 ELSE 0))

\* the acceptance test of a feature or disclaimer group
feature_accepted(fn, lst, min_confidence) ==
    feature_conf(fn, lst) >= min_confidence \/ Len(lst) >= 2

\* feats.append({"text": lst[0].value, "sources": [...], "confidence": conf})
FeatureEntryIf(fn, group, conf, min_confidence) ==
    IF feature_accepted(fn, group, min_confidence)
    THEN << [ text |-> group[1].value, sources |-> SourcesOf(group), confidence |-> conf ] >>
    ELSE << >>

\* the loop over feat_vals.items() / disc_vals.items()
RECURSIVE FeatureEntries(_, _, _)
FeatureEntries(fn, groups, min_confidence) ==
    IF groups = << >> THEN << >>
    ELSE FeatureEntryIf(fn, Head(groups), feature_conf(fn, Head(groups)), min_confidence)
             \o FeatureEntries(fn, Tail(groups), min_confidence)

EntriesOfNorms(lst, norms, min_confidence, fn) ==
    FeatureEntries(fn, GroupsOf(lst, norms, BucketKeys(norms), 1), min_confidence)

\* the feats / discls list built from by_key.get(key, [])
phrase_entries(lst, min_confidence, fn) == EntriesOfNorms(lst, PhraseNorms(lst), min_confidence, fn)

\* the slices of the returned lists
MaxFeaturesOut == 20
MaxDisclaimersOut == 10
MaxClaimsOut == 30

\* by_key[k]
by_key(claims, k) == SelectIdx(claims, { i \in DOMAIN claims : claims[i].key = k }, 1)

\* the loop "for key, lst in by_key.items()" that fills specs_out
RECURSIVE SpecsOut(_, _, _, _, _, _)
SpecsOut(claims, keys, i, min_confidence, fn, ureg) ==
    IF i > Len(keys) THEN << >>
    ELSE spec_entries(keys[i], by_key(claims, keys[i]), min_confidence, fn, ureg)
             \o SpecsOut(claims, keys, i + 1, min_confidence, fn, ureg)

\* claims_out
RECURSIVE ClaimsOut(_)
ClaimsOut(first) ==
    IF first = << >> THEN << >>
    ELSE << [ key |-> Head(first).key, value |-> Head(first).value,
              source |-> Head(first).source ] >> \o ClaimsOut(Tail(first))

consolidate_claims(claims, min_confidence, fn, ureg) ==
    [ specs       |-> SpecsOut(claims, FirstOccurrences([ i \in DOMAIN claims |-> claims[i].key ]),
                               1, min_confidence, fn, ureg),
      features    |-> Take(phrase_entries(by_key(claims, "feature"), min_confidence, fn),
                           MaxFeaturesOut),
      disclaimers |-> Take(phrase_entries(by_key(claims, "disclaimer"), min_confidence, fn),
                           MaxDisclaimersOut),
      claims      |-> ClaimsOut(Take(claims, MaxClaimsOut)),
      notes       |-> << >> ]

\* ------------------------------------------------------- ddg_search_multi
Max(a, b) == IF a >= b THEN a ELSE b

\* per = max(2, max_results // max(1, len(queries)))
ddg_per(max_results, nq) == Max(2, max_results \div Max(1, nq))

\* the hits list returned as it is
ddg_dedupe_none(hits) == hits

\* seen = set(); out = []; each url is kept the first time it is met
ddg_dedupe(hits) == FirstOccurrences(hits)

\* what ddg_search_multi returns once the loop over the queries is over, or
\* straight away when DDGS is None
ddg_return(loaded, hits, max_results) ==
    IF ~loaded THEN << >> ELSE Take(ddg_dedupe(hits), max_results)

\* --------------------------------------------------------- category guard
\* The profiles of three categories that share vocabulary, in the order of the
\* dict; every string is its code points.
CATEGORY_PROFILES ==
 <<
    \* "headphones"
    [ key |-> << 104, 101, 97, 100, 112, 104, 111, 110, 101, 115 >>,
      aliases |-> <<
          \* "headphone"
          << 104, 101, 97, 100, 112, 104, 111, 110, 101 >>,
          \* "headphones"
          << 104, 101, 97, 100, 112, 104, 111, 110, 101, 115 >>,
          \* "earbuds"
          << 101, 97, 114, 98, 117, 100, 115 >>,
          \* "headset"
          << 104, 101, 97, 100, 115, 101, 116 >> >>,
      allow |-> <<
          \* "headphone"
          << 104, 101, 97, 100, 112, 104, 111, 110, 101 >>,
          \* "earbuds"
          << 101, 97, 114, 98, 117, 100, 115 >>,
          \* "headset"
          << 104, 101, 97, 100, 115, 101, 116 >>,
          \* "bluetooth"
          << 98, 108, 117, 101, 116, 111, 111, 116, 104 >>,
          \* "anc"
          << 97, 110, 99 >>,
          \* "noise cancellation"
          << 110, 111, 105, 115, 101, 32, 99, 97, 110, 99, 101, 108, 108, 97, 116, 105, 111, 110 >>,
          \* "drivers"
          << 100, 114, 105, 118, 101, 114, 115 >>,
          \* "impedance"
          << 105, 109, 112, 101, 100, 97, 110, 99, 101 >>,
          \* "frequency response"
          << 102, 114, 101, 113, 117, 101, 110, 99, 121, 32, 114, 101, 115, 112, 111, 110, 115, 101 >>,
          \* "codec"
          << 99, 111, 100, 101, 99 >>,
          \* "aac"
          << 97, 97, 99 >>,
          \* "ldac"
          << 108, 100, 97, 99 >>,
          \* "aptx"
          << 97, 112, 116, 120 >> >>,
      deny |-> <<
          \* "wh"
          << 119, 104 >>,
          \* "portable power station"
          << 112, 111, 114, 116, 97, 98, 108, 101, 32, 112, 111, 119, 101, 114, 32, 115, 116, 97, 116, 105, 111, 110 >>,
          \* "generator"
          << 103, 101, 110, 101, 114, 97, 116, 111, 114 >>,
          \* "inverter"
          << 105, 110, 118, 101, 114, 116, 101, 114 >>,
          \* "lifepo4"
          << 108, 105, 102, 101, 112, 111, 52 >>,
          \* "ac outlet"
          << 97, 99, 32, 111, 117, 116, 108, 101, 116 >>,
          \* "solar input"
          << 115, 111, 108, 97, 114, 32, 105, 110, 112, 117, 116 >>,
          \* "welding"
          << 119, 101, 108, 100, 105, 110, 103 >>,
          \* "lawn mower"
          << 108, 97, 119, 110, 32, 109, 111, 119, 101, 114 >> >> ],
    \* "earbuds"
    [ key |-> << 101, 97, 114, 98, 117, 100, 115 >>,
      aliases |-> <<
          \* "earbud"
          << 101, 97, 114, 98, 117, 100 >>,
          \* "earbuds"
          << 101, 97, 114, 98, 117, 100, 115 >>,
          \* "headphones"
          << 104, 101, 97, 100, 112, 104, 111, 110, 101, 115 >>,
          \* "headset"
          << 104, 101, 97, 100, 115, 101, 116 >> >>,
      allow |-> <<
          \* "earbud"
          << 101, 97, 114, 98, 117, 100 >>,
          \* "earbuds"
          << 101, 97, 114, 98, 117, 100, 115 >>,
          \* "bluetooth"
          << 98, 108, 117, 101, 116, 111, 111, 116, 104 >>,
          \* "anc"
          << 97, 110, 99 >>,
          \* "noise cancellation"
          << 110, 111, 105, 115, 101, 32, 99, 97, 110, 99, 101, 108, 108, 97, 116, 105, 111, 110 >>,
          \* "ipx"
          << 105, 112, 120 >>,
          \* "codec"
          << 99, 111, 100, 101, 99 >> >>,
      deny |-> <<
          \* "wh"
          << 119, 104 >>,
          \* "generator"
          << 103, 101, 110, 101, 114, 97, 116, 111, 114 >>,
          \* "inverter"
          << 105, 110, 118, 101, 114, 116, 101, 114 >>,
          \* "lifepo4"
          << 108, 105, 102, 101, 112, 111, 52 >>,
          \* "ac outlet"
          << 97, 99, 32, 111, 117, 116, 108, 101, 116 >>,
          \* "solar input"
          << 115, 111, 108, 97, 114, 32, 105, 110, 112, 117, 116 >> >> ],
    \* "portable power station"
    [ key |-> << 112, 111, 114, 116, 97, 98, 108, 101, 32, 112, 111, 119, 101, 114, 32, 115, 116, 97, 116, 105, 111, 110 >>,
      aliases |-> <<
          \* "portable power station"
          << 112, 111, 114, 116, 97, 98, 108, 101, 32, 112, 111, 119, 101, 114, 32, 115, 116, 97, 116, 105, 111, 110 >>,
          \* "generator"
          << 103, 101, 110, 101, 114, 97, 116, 111, 114 >>,
          \* "power station"
          << 112, 111, 119, 101, 114, 32, 115, 116, 97, 116, 105, 111, 110 >> >>,
      allow |-> <<
          \* "wh"
          << 119, 104 >>,
          \* "kwh"
          << 107, 119, 104 >>,
          \* "dc"
          << 100, 99 >>,
          \* "ac outlet"
          << 97, 99, 32, 111, 117, 116, 108, 101, 116 >>,
          \* "inverter"
          << 105, 110, 118, 101, 114, 116, 101, 114 >>,
          \* "lifepo4"
          << 108, 105, 102, 101, 112, 111, 52 >>,
          \* "solar input"
          << 115, 111, 108, 97, 114, 32, 105, 110, 112, 117, 116 >>,
          \* "cycle life"
          << 99, 121, 99, 108, 101, 32, 108, 105, 102, 101 >> >>,
      deny |-> <<
          \* "headphones"
          << 104, 101, 97, 100, 112, 104, 111, 110, 101, 115 >>,
          \* "earbuds"
          << 101, 97, 114, 98, 117, 100, 115 >>,
          \* "anc"
          << 97, 110, 99 >>,
          \* "drivers"
          << 100, 114, 105, 118, 101, 114, 115 >>,
          \* "impedance"
          << 105, 109, 112, 101, 100, 97, 110, 99, 101 >>,
          \* "frequency response"
          << 102, 114, 101, 113, 117, 101, 110, 99, 121, 32, 114, 101, 115, 112, 111, 110, 115, 101 >> >> ] >>

\* the profile {} of a hint that names no known category
EmptyProfile == [ allow |-> << >>, deny |-> << >> ]

\* positions of the profiles whose key, or one of whose aliases, is c
DirectMatches(c) == { i \in DOMAIN CATEGORY_PROFILES : CATEGORY_PROFILES[i].key = c }
AliasMatches(c) == { i \in DOMAIN CATEGORY_PROFILES : c \in Range(CATEGORY_PROFILES[i].aliases) }

\* dict iteration order: the first of the positions
FirstOf(positions) == CHOOSE i \in positions : \A j \in positions : i <= j

ResolvedAs(i) ==
    [ cat_key |-> CATEGORY_PROFILES[i].key,
      profile |-> [ allow |-> CATEGORY_PROFILES[i].allow, deny |-> CATEGORY_PROFILES[i].deny ] ]

\* c is the hint stripped and lower-cased
ResolveLowered(c) ==
    IF DirectMatches(c) # {} THEN ResolvedAs(FirstOf(DirectMatches(c)))
    ELSE IF AliasMatches(c) # {} THEN ResolvedAs(FirstOf(AliasMatches(c)))
    ELSE [ cat_key |-> c, profile |-> EmptyProfile ]

\* _resolve_category(cat_hint); the hint None or "" is the empty sequence
resolve_category(cat_hint) ==
    IF cat_hint = << >> THEN [ cat_key |-> << >>, profile |-> EmptyProfile ]
    ELSE ResolveLowered(Lower(Strip(cat_hint)))

\* the list with the cheaper model first
CANDIDATE_MODELS_flash_first == << "gemini-1.5-flash", "gemini-1.5-pro" >>

CANDIDATE_MODELS == << "gemini-1.5-pro", "gemini-1.5-flash" >>

\* the marker lists PROMPT_TEMPLATE is filled with, and nothing else, are what
\* gemini_product_info does with the profile
gemini_prompt(resolved) ==
    [ category |-> resolved.cat_key,
      allow_markers |-> resolved.profile.allow,
      deny_markers |-> resolved.profile.deny ]

\* return {"status": "ERROR", "error": str(last_err)}
gemini_error(last_err) == [ status |-> "ERROR", features |-> << >>, error |-> last_err ]

\* -------------------------------------------------------------- fetch_html
\* the names fetcher.py defines: "from fetcher import get_html" finds none of
\* that name, the ImportError is caught and get_html is None
FetcherExports ==
    { "fetch_html", "search_serp", "extract_structured_product", "download_pdf" }

get_html_loaded == "get_html" \in FetcherExports

None == [ kind |-> "None" ]

\* the rendered page counts only when it is longer than 500 characters
rendered_html(rendered) ==
    IF rendered.kind = "html" /\ rendered.long THEN rendered ELSE None

\* the plain GET: None without requests, on an exception (error, timeout) and
\* for a Content-Type that is not text/html; else r.text, whatever the status
plain_get(requests_loaded, resp) ==
    IF ~requests_loaded THEN None
    ELSE IF resp.kind # "response" THEN None
    ELSE IF resp.ctype # "text/html" THEN None
    ELSE [ kind |-> "html", long |-> TRUE, status |-> resp.status, body |-> resp.body ]

\* fetch_html(url): the rendering fetch first when get_html was imported
fetch_html(requests_loaded, rendered, resp) ==
    IF get_html_loaded /\ rendered_html(rendered) # None THEN rendered_html(rendered)
    ELSE plain_get(requests_loaded, resp)

\* ------------------------------------------------------ fetcher.fetch_html
\* _sync_requests_html: None without requests (the import raises inside the
\* try), on an exception, for a status that is not ok (>= 400) and for a
\* Content-Type that is not text/html; else r.text
sync_requests_html(requests_loaded, resp) ==
    IF ~requests_loaded THEN None
    ELSE IF resp.kind # "response" THEN None
    ELSE IF resp.status < 400 /\ resp.ctype = "text/html"
    THEN [ kind |-> "html", long |-> TRUE, status |-> resp.status, body |-> resp.body ]
    ELSE None

\* whether a fetch_html tries to render at all: fetcher.py's under
\* PLAYWRIGHT_ENABLED, product_research.py's when get_html was imported
render_tried(fn, playwright) == IF fn = "fetcher" THEN playwright ELSE get_html_loaded

\* whether the rendered page is returned: "html or ..." in fetcher.py,
\* "html and len(html) > 500" in product_research.py
render_used(fn, rendered) ==
    IF fn = "fetcher" THEN rendered.kind = "html" ELSE rendered_html(rendered) # None

\* the plain GET of either module
plain_get_of(fn, requests_loaded, resp) ==
    IF fn = "fetcher" THEN sync_requests_html(requests_loaded, resp)
    ELSE plain_get(requests_loaded, resp)

\* ------------------------------------------------------------ validators.py
\* JSON values of the fields the validators read: a number (times in tenths
\* of a second, confidence in hundredths), the number NaN, which json.loads
\* accepts, a string that is no number, a missing key or null
JNumber(n) == [ kind |-> "number", v |-> n ]
JNaN == [ kind |-> "NaN", v |-> 0 ]
JString == [ kind |-> "string", v |-> 0 ]
JMissing == [ kind |-> "missing", v |-> 0 ]

\* Python floats: a finite value or nan
Float(n) == [ kind |-> "float", v |-> n ]
NaN == [ kind |-> "nan", v |-> 0 ]

\* float(x) for a value float() accepts
float_of(x) == IF x.kind = "NaN" THEN NaN ELSE Float(x.v)

\* float(x) raises: ValueError for a string that is no number, TypeError for None
float_raises(x) == x.kind \in { "string", "missing" }

\* _f(x): float(x), None when float() raises
_f(x) == IF float_raises(x) THEN None ELSE float_of(x)

\* comparisons of floats: every comparison with nan is False
Gt(a, b) == a.kind = "float" /\ b.kind = "float" /\ a.v > b.v
Lt(a, b) == Gt(b, a)
Le(a, b) == a.kind = "float" /\ b.kind = "float" /\ a.v <= b.v
Ge(a, b) == Le(b, a)

\* a - b, and abs(a)
Minus(a, b) == IF a.kind = "float" /\ b.kind = "float" THEN Float(a.v - b.v) ELSE NaN
Abs(a) == IF a.kind = "float" /\ a.v < 0 THEN Float(0 - a.v) ELSE a

\* _non_empty_str(s)
non_empty_str(s) == s # ""

\* an error message, with the number of the scene or phase it names (0: none)
Err(text, i) == [ text |-> text, i |-> i ]

\* what a validator call ends in: the list returned, or an exception
Returned(errs) == [ raised |-> "", errs |-> errs ]
Raised(exc, errs) == [ raised |-> exc, errs |-> errs ]

\* ------------------------------------------------- validate_script_json
\* the checks of one turn of "for i, s in enumerate(scenes, start=1)"
scene_errs(i, s, st, en, prev_end) ==
    (IF st = None \/ en = None \/ Le(en, st) THEN << Err("Scene invalid start/end.", i) >> ELSE << >>)
      \o (IF prev_end # None /\ Gt(Minus(st, prev_end), Float(10))
          THEN << Err("Scene has a large gap from previous scene (>1s).", i) >> ELSE << >>)
      \o (IF ~non_empty_str(s.action) THEN << Err("Scene missing 'action'.", i) >> ELSE << >>)
      \o (IF s.on_screen_text > 2
          THEN << Err("Scene has more than 2 on_screen_text lines.", i) >> ELSE << >>)

\* "st - prev_end" raises TypeError when st is None and prev_end is a float
gap_raises(st, prev_end) == prev_end # None /\ st = None

\* the loop from scene i on; the error of the invalid start is appended
\* before the subtraction raises
RECURSIVE scenes_loop(_, _, _, _)
scenes_loop(scenes, i, prev_end, errs) ==
    IF i > Len(scenes) THEN Returned(errs)
    ELSE IF gap_raises(_f(scenes[i].start_s), prev_end)
    THEN Raised("TypeError", Append(errs, Err("Scene invalid start/end.", i)))
    ELSE scenes_loop(scenes, i + 1, _f(scenes[i].end_s),
                     errs \o scene_errs(i, scenes[i], _f(scenes[i].start_s),
                                        _f(scenes[i].end_s), prev_end))

\* 0.75 s lies between 0.7 and 0.8: in tenths, st0 > 0.75 is st0 > 7
first_errs(st0) ==
    IF st0 = None \/ Gt(st0, Float(7))
    THEN << Err("First scene should start near 0.0s.", 0) >> ELSE << >>

last_errs(end_last, target) ==
    IF end_last # None /\ Gt(Abs(Minus(end_last, Float(target))), Float(20))
    THEN << Err("Last scene end_s should be close to target_runtime_s.", 0) >> ELSE << >>

with_last(loop, scenes, target) ==
    IF loop.raised # "" THEN loop
    ELSE Returned(loop.errs \o last_errs(_f(scenes[Len(scenes)].end_s), target))

\* validate_script_json(j, target_runtime_s); j.script tells whether
\* j["script"] is a dict, j.is_list whether script.get("scenes", []) is a list
validate_script_json(j, target) ==
    IF j.script # "dict" THEN Returned(<< Err("Missing 'script' object.", 0) >>)
    ELSE IF ~j.is_list \/ j.scenes = << >>
    THEN Returned(<< Err("Missing 'script.scenes' (non-empty list).", 0) >>)
    ELSE with_last(scenes_loop(j.scenes, 1, None, first_errs(_f(j.scenes[1].start_s))),
                   j.scenes, target)

\* ----------------------------------------------- validate_analyzer_json
ARCHETYPES ==
    { "SHOWCASE", "NARRATIVE", "TUTORIAL", "COMPARISON", "TEST_DEMO", "TESTIMONIAL_UGC",
      "TIMELAPSE", "ANNOUNCEMENT" }

metadata_errs(vm) ==
    IF ~vm.is_dict THEN << Err("Missing 'video_metadata'.", 0) >>
    ELSE (IF _f(vm.duration_s) = None \/ Lt(_f(vm.duration_s), Float(0))
          THEN << Err("Invalid 'video_metadata.duration_s'.", 0) >> ELSE << >>)
           \o (IF ~non_empty_str(vm.aspect_ratio)
               THEN << Err("Missing 'video_metadata.aspect_ratio'.", 0) >> ELSE << >>)

signals_errs(gs) ==
    IF ~gs.is_dict THEN << Err("Missing 'global_signals'.", 0) >>
    ELSE IF gs.speech_presence \notin { "none", "low", "medium", "high" }
    THEN << Err("global_signals.speech_presence must be one of none|low|medium|high.", 0) >>
    ELSE << >>

archetype_errs(arch) ==
    IF arch \notin ARCHETYPES THEN << Err("Invalid or missing 'archetype'.", 0) >> ELSE << >>

\* "conf is None or not (0.0 <= float(conf) <= 1.0)", conf in hundredths;
\* float(conf) is outside any try
confidence_raises(conf) == conf.kind # "missing" /\ float_raises(conf)

confidence_errs(conf) ==
    IF conf.kind = "missing"
         \/ ~(Le(Float(0), float_of(conf)) /\ Le(float_of(conf), Float(100)))
    THEN << Err("Missing/invalid 'confidence' in [0,1].", 0) >> ELSE << >>

\* phases as the loop sees them: [] when j["phases"] is no list
phases_of(j) == IF j.phases_is_list THEN j.phases ELSE << >>

phases_errs(j) ==
    (IF ~j.phases_is_list THEN << Err("Missing 'phases' (list).", 0) >> ELSE << >>)
      \o (IF phases_of(j) # << >> THEN << >>
          ELSE IF j.archetype = "SHOWCASE" THEN << Err("SHOWCASE: no phases found.", 0) >>
          ELSE << Err("'phases' should not be empty.", 0) >>)

\* one turn of the phase loop, for st and en that are both floats; in tenths,
\* st < prev_end - 0.25 is st < prev_end - 2
phase_errs(i, st, en, prev_end) ==
    (IF Le(en, st) THEN << Err("Phase has invalid start/end (end <= start).", i) >> ELSE << >>)
      \o (IF Ge(prev_end, Float(0)) /\ Lt(st, Minus(prev_end, Float(2)))
          THEN << Err("Phase starts before previous phase ends (overlap).", i) >> ELSE << >>)

RECURSIVE phases_loop(_, _, _)
phases_loop(phases, i, prev_end) ==
    IF i > Len(phases) THEN << >>
    ELSE IF _f(phases[i].start_s) # None /\ _f(phases[i].end_s) # None
    THEN phase_errs(i, _f(phases[i].start_s), _f(phases[i].end_s), prev_end)
           \o phases_loop(phases, i + 1, _f(phases[i].end_s))
    ELSE phases_loop(phases, i + 1, prev_end)

\* "if vf and not isinstance(vf, list)"
features_errs(vf) ==
    IF vf = "string" THEN << Err("'visible_product_features' must be a list.", 0) >> ELSE << >>

validate_analyzer_json(j) ==
    IF confidence_raises(j.confidence)
    THEN Raised("ValueError",
                metadata_errs(j.video_metadata) \o signals_errs(j.global_signals)
                  \o archetype_errs(j.archetype))
    ELSE Returned(metadata_errs(j.video_metadata) \o signals_errs(j.global_signals)
                    \o archetype_errs(j.archetype) \o confidence_errs(j.confidence)
                    \o phases_errs(j) \o phases_loop(phases_of(j), 1, Float(0 - 10))
                    \o features_errs(j.visible_product_features))

\* ------------------------------------------------------ llm._extract_json
\* json.loads on texts of the characters { } [ ] 1 " x and the blank: what
\* kind of value the text is, "invalid" when it is no JSON text. With no colon
\* the only object is the empty one, with no comma an array has at most one
\* element
RECURSIVE value_kind(_)
value_kind(body) ==
    IF body = << >> THEN "invalid"
    ELSE IF \A i \in DOMAIN body : body[i] = 49 THEN "int"
    ELSE IF Len(body) < 2 THEN "invalid"
    ELSE IF Head(body) = 34 /\ body[Len(body)] = 34
    THEN (IF \A i \in 2..(Len(body) - 1) : body[i] # 34 THEN "str" ELSE "invalid")
    ELSE IF Head(body) = 123 /\ body[Len(body)] = 125
    THEN (IF Strip(SubSeq(body, 2, Len(body) - 1)) = << >> THEN "dict" ELSE "invalid")
    ELSE IF Head(body) = 91 /\ body[Len(body)] = 93
    THEN (IF Strip(SubSeq(body, 2, Len(body) - 1)) = << >> THEN "list"
          ELSE IF value_kind(Strip(SubSeq(body, 2, Len(body) - 1))) # "invalid" THEN "list"
          ELSE "invalid")
    ELSE "invalid"

\* blanks around the value are allowed
json_loads(text) == value_kind(Strip(text))

\* re.search(r"\{.*\}", text, re.S): from the first "{" to the last "}" after
\* it, << >> when there is no match
brace_match(text) ==
    IF \E i, j \in DOMAIN text : i < j /\ text[i] = 123 /\ text[j] = 125
    THEN SubSeq(text,
                CHOOSE i \in DOMAIN text : text[i] = 123 /\ \A k \in 1..(i - 1) : text[k] # 123,
                CHOOSE j \in DOMAIN text : text[j] = 125 /\ \A k \in (j + 1)..Len(text) : text[k] # 125)
    ELSE << >>

\* the value returned: what json.loads gave, of any kind, or {"raw": text}
Parsed(kind, text) == [ kind |-> kind, raw |-> FALSE, of |-> text ]
RawDict(text) == [ kind |-> "dict", raw |-> TRUE, of |-> text ]

extract_json(text) ==
    IF json_loads(text) # "invalid" THEN Parsed(json_loads(text), text)
    ELSE IF brace_match(text) # << >> /\ json_loads(brace_match(text)) # "invalid"
    THEN Parsed(json_loads(brace_match(text)), brace_match(text))
    ELSE RawDict(text)

\* ----------------------------------------- app.propose_scene_candidates
\* times are in thousandths of a second, motion values in hundredths
\* round(t, 2)
round2(t) == ((t + 5) \div 10) * 10

\* the defaults of the parameters threshold and min_len
threshold == 45
min_len == 2000

Segment(a, b, why) == [ start_s |-> a, end_s |-> b, why |-> why ]

whole_clip(duration) == << Segment(0, round2(duration), "whole clip") >>

\* the branch "if not key_ts"
equal_split(duration) ==
    IF duration >= 9000
    THEN << Segment(0, round2(duration \div 3), "equal split"),
            Segment(round2(duration \div 3), round2((2 * duration) \div 3), "equal split"),
            Segment(round2((2 * duration) \div 3), round2(duration), "equal split") >>
    ELSE whole_clip(duration)

\* abs(motion_vals[i] - motion_vals[i - 1])
jump(a, b) == IF a >= b THEN a - b ELSE b - a

\* the loop "for i in range(1, len(motion_vals))", from the 0-based index i
\* on, which is position i + 1 here
RECURSIVE motion_cuts(_, _, _, _)
motion_cuts(key_ts, motion_vals, i, cuts) ==
    IF i + 1 > Len(motion_vals) THEN cuts
    ELSE motion_cuts(key_ts, motion_vals, i + 1,
             IF jump(motion_vals[i + 1], motion_vals[i]) >= threshold
                  /\ key_ts[i + 1] - cuts[Len(cuts)] >= min_len
             THEN Append(cuts, round2(key_ts[i + 1]))
             ELSE cuts)

\* the cut at the end of the clip, when at least min_len is left
closing_cut(duration, cuts) ==
    IF duration - cuts[Len(cuts)] >= min_len THEN Append(cuts, round2(duration)) ELSE cuts

segments_of(cuts) ==
    [ i \in 1..(Len(cuts) - 1) |->
        Segment(cuts[i], cuts[i + 1], IF i = 1 THEN "start" ELSE "motion jump") ]

propose_scene_candidates(duration, key_ts, motion_vals) ==
    IF key_ts = << >> THEN equal_split(duration)
    ELSE IF segments_of(closing_cut(duration, motion_cuts(key_ts, motion_vals, 1, << 0 >>))) = << >>
    THEN whole_clip(duration)
    ELSE segments_of(closing_cut(duration, motion_cuts(key_ts, motion_vals, 1, << 0 >>)))

\* ------------------------------------------- validate and repair, the steps
\* "analysis.setdefault(...)" before the validation in app.py: a key that is
\* missing is filled in from the clip; .setdefault on a video_metadata or a
\* global_signals that is no dict raises AttributeError. An aspect_ratio or
\* speech_presence of "" stands for the missing key
attach_signals_raises(j) == ~j.video_metadata.is_dict \/ ~j.global_signals.is_dict

attach_signals(j, duration) ==
    [ j EXCEPT !.video_metadata.duration_s = IF @.kind = "missing" THEN JNumber(duration) ELSE @,
               !.video_metadata.aspect_ratio = IF @ = "" THEN "9:16" ELSE @,
               !.global_signals.speech_presence = IF @ = "" THEN "low" ELSE @ ]

\* "raw[...] = ..." after the repair in analyzer.py: the signals of the clip
\* overwrite the ones of the answer; the item assignment raises TypeError on a
\* video_metadata that is no dict, .update raises AttributeError on a
\* global_signals that is no dict
attach_low_level(j, duration) ==
    [ j EXCEPT !.video_metadata.duration_s = JNumber(duration),
               !.video_metadata.aspect_ratio = "9:16",
               !.global_signals.speech_presence = "low" ]

attach_low_level_exc(j) ==
    IF ~j.video_metadata.is_dict THEN "TypeError"
    ELSE IF ~j.global_signals.is_dict THEN "AttributeError"
    ELSE ""

\* "Fallback segmentation for silent SHOWCASE" in app.py, for a clip with
\* fewer than two scene candidates: the one phase is the whole clip. The
\* duration is in tenths of a second, 10 s is 100
fallback_segmentation(j, duration) ==
    IF j.archetype = "SHOWCASE" /\ duration >= 100 /\ Len(phases_of(j)) <= 1
    THEN [ j EXCEPT !.phases_is_list = TRUE,
                    !.phases = << [ start_s |-> JNumber(0), end_s |-> JNumber(duration) ] >> ]
    ELSE j

\* the validator of the site, on the JSON the site holds
site_validator(site, aj, sj, target) ==
    IF site = "app.script" THEN validate_script_json(sj, target)
    ELSE validate_analyzer_json(aj)

\* ------------------------------------------------- research_product, parts
\* brand.split()[0].lower()
brand_token(brand) ==
    CASE brand = "Acme Outdoors" -> "acme"
      [] brand = "" -> ""

\* domain_of(url): the host part
domain_of(url) ==
    CASE url = "acme.com/p" -> "acme.com"
      [] url = "amazon.com/dp" -> "amazon.com"
      [] url = "gearblog.net/review" -> "gearblog.net"
      [] url = "acme.com/manual.pdf" -> "acme.com"
      [] url = "reddit.com/r/gear" -> "reddit.com"
      [] url = "github.com/acme/manual.pdf" -> "github.com"

\* token in host
TokenInHost(token, host) == token = "acme" /\ host = "acme.com"

\* any(x in host for x in RETAIL_HOST_HINTS)
IsRetailHost(host) == host = "amazon.com"

\* the spec lines, feature lines and disclaimer lines of a product page
PageSpecs(url) ==
    CASE url = "acme.com/p" -> << << "weight", W095 >> >>
      [] url = "amazon.com/dp" -> << << "weight", W11 >> >>
      [] url = "gearblog.net/review" -> << >>
      [] url = "reddit.com/r/gear" -> << << "weight", W11 >> >>

PageFeatures(url) ==
    CASE url = "acme.com/p" -> << MeshB >>
      [] url = "amazon.com/dp" -> << MeshA >>
      [] url = "gearblog.net/review" -> << MeshB >>
      [] url = "reddit.com/r/gear" -> << MeshA >>

PageDisclaimers(url) ==
    CASE url = "acme.com/p" -> << Overload >>
      [] url = "amazon.com/dp" -> << >>
      [] url = "gearblog.net/review" -> << Overload >>
      [] url = "reddit.com/r/gear" -> << >>

\* a Claim of product_research.py: score and manufacturer are its own fields
ResearchClaim(k, v, src, kd, sc) ==
    [ key |-> k, value |-> v, source |-> src, snippet |-> "", kind |-> kd,
      score |-> sc, manufacturer |-> FALSE ]

\* the claims the parse loop appends for one candidate: specs, then features,
\* then disclaimers; only a product page has such lines
\* normalize_units(specs): every value of the dict through the unit
\* normalizer, normalize(key, raw_value)
RECURSIVE normalize_units_dict(_, _)
normalize_units_dict(ureg, specs) ==
    IF specs = << >> THEN << >>
    ELSE << << Head(specs)[1], normalize_units(ureg, Head(specs)[1], Head(specs)[2]) >> >>
             \o normalize_units_dict(ureg, Tail(specs))

RECURSIVE SpecClaims(_, _, _)
SpecClaims(url, sc, specs) ==
    IF specs = << >> THEN << >>
    ELSE << ResearchClaim(Head(specs)[1], Head(specs)[2], url, "spec", sc) >>
             \o SpecClaims(url, sc, Tail(specs))

RECURSIVE PhraseClaims(_, _, _, _)
PhraseClaims(url, sc, kd, texts) ==
    IF texts = << >> THEN << >>
    ELSE << ResearchClaim(kd, Head(texts), url, kd, sc) >>
             \o PhraseClaims(url, sc, kd, Tail(texts))

page_claims(cand, ureg) ==
    IF cand.html.body # "product" THEN << >>
    ELSE SpecClaims(cand.url, cand.score, normalize_units_dict(ureg, PageSpecs(cand.url)))
           \o PhraseClaims(cand.url, cand.score, "feature", PageFeatures(cand.url))
           \o PhraseClaims(cand.url, cand.score, "disclaimer", PageDisclaimers(cand.url))

RECURSIVE ParseCandidates(_, _)
ParseCandidates(cands, ureg) ==
    IF cands = << >> THEN << >>
    ELSE page_claims(Head(cands), ureg) \o ParseCandidates(Tail(cands), ureg)

\* c.manufacturer = bool(brand_token and brand_token in domain_of(c.source))
RECURSIVE FlagManufacturer(_, _)
FlagManufacturer(raw, token) ==
    IF raw = << >> THEN << >>
    ELSE << [ Head(raw) EXCEPT !.manufacturer = TokenInHost(token, domain_of(Head(raw).source)) ] >>
             \o FlagManufacturer(Tail(raw), token)

\* _is_allowed_host: no DENY_HOST_HINTS entry occurs in the host
DenyHosts == { "reddit.com", "stackoverflow.com", "github.com" }

is_allowed_host(host) == host \notin DenyHosts

\* _is_productish: a page with a product marker and the product's tokens
is_productish(html) == html.body = "product"

\* link_density(html), in tenths
link_density(html) == IF html.body = "product" THEN 2 ELSE 6

\* score = 2.0 + bias - link_density(html), in tenths
candidate_score(host, token, html) ==
    20 + (IF IsRetailHost(host) \/ TokenInHost(token, host) THEN 20 ELSE 0) - link_density(html)

\* the loop body of "for h in urls": the candidates list after the hit url
\* answered with html (None: the hit is skipped)
fetch_and_filter(candidates, url, token, html) ==
    IF ~is_allowed_host(domain_of(url)) THEN candidates
    ELSE IF html = None THEN candidates
    ELSE IF ~is_productish(html) /\ ~TokenInHost(token, domain_of(url)) THEN candidates
    ELSE Append(candidates, [ score |-> candidate_score(domain_of(url), token, html),
                              url |-> url, html |-> html ])

\* candidates.sort(reverse=True, key=score): stable, highest score first
RECURSIVE InsertByScore(_, _)
InsertByScore(sorted, c) ==
    IF sorted = << >> THEN << c >>
    ELSE IF Head(sorted).score >= c.score THEN << Head(sorted) >> \o InsertByScore(Tail(sorted), c)
    ELSE << c >> \o sorted

RECURSIVE sort_candidates(_)
sort_candidates(cands) ==
    IF cands = << >> THEN << >>
    ELSE InsertByScore(sort_candidates(SubSeq(cands, 1, Len(cands) - 1)), cands[Len(cands)])

\* ------------------------------------------------------------ call binding
\* Python binds a call to a signature: every keyword must name a parameter
\* that no positional argument fills, and every parameter without a default
\* must be filled; otherwise the call raises TypeError
FilledByPosition(params, npos) == { params[i] : i \in 1..Min(npos, Len(params)) }

call_binds(params, required, npos, kws) ==
    /\ npos <= Len(params)
    /\ kws \subseteq (Range(params) \ FilledByPosition(params, npos))
    /\ required \subseteq (FilledByPosition(params, npos) \cup kws)

\* def research_product(brand, product, *, product_url_override,
\*                      vision_category_tags, max_results)
ResearchParams ==
    << "brand", "product", "product_url_override", "vision_category_tags", "max_results" >>
ResearchRequired == { "brand", "product" }

\* the keywords of the call in app.py, and of a call that follows the signature
AppKeywords ==
    { "brand", "product", "product_url_override", "ocr_hints", "vision_hints",
      "max_results", "min_confidence" }
DirectKeywords == { "brand", "product", "product_url_override" }

CallerKeywords(caller) == IF caller = "app" THEN AppKeywords ELSE DirectKeywords

\* def consolidate_claims(claims, brand, min_confidence=0.6, is_manufacturer=...)
ConsolidateParams == << "claims", "brand", "min_confidence", "is_manufacturer" >>
ConsolidateRequired == { "claims", "brand" }

\* consolidate_claims(raw_claims, brand_token=brand_token): one positional
\* argument and one keyword
ConsensusCallPositional == 1
ConsensusCallKeywords == { "brand_token" }

\* the is_manufacturer the consensus call passes: none, so the default
ConsensusCallManufacturerFn ==
    IF "is_manufacturer" \in ConsensusCallKeywords THEN "brand_domain" ELSE "default"

\* ------------------------------------------------ research_product, result
\* _dedupe(seq): texts stripped, the empty ones dropped, each kept the first
\* time its lower-cased form is met
RECURSIVE StripAll(_)
StripAll(seq) == IF seq = << >> THEN << >> ELSE << Strip(Head(seq)) >> \o StripAll(Tail(seq))

RECURSIVE LowerAll(_)
LowerAll(seq) == IF seq = << >> THEN << >> ELSE << Lower(Head(seq)) >> \o LowerAll(Tail(seq))

DedupeStripped(stripped, keys) ==
    SelectIdx(stripped,
              { i \in DOMAIN stripped :
                    stripped[i] # << >> /\ \A j \in 1..(i - 1) : keys[j] # keys[i] },
              1)

dedupe(seq) == DedupeStripped(StripAll(seq), LowerAll(StripAll(seq)))

\* [c.value for c in raw_claims if c.kind == "disclaimer"]
RECURSIVE DisclaimerValues(_)
DisclaimerValues(raw) ==
    IF raw = << >> THEN << >>
    ELSE (IF Head(raw).kind = "disclaimer" THEN << Head(raw).value >> ELSE << >>)
             \o DisclaimerValues(Tail(raw))

\* [s for s in consensus.get(...) if len(s.get("sources", [])) > 0]
WithSources(entries) == SelectIdx(entries, { i \in DOMAIN entries : Len(entries[i].sources) > 0 }, 1)

UrlsOf(entries) ==
    UNION { { entries[i].sources[j].url : j \in DOMAIN entries[i].sources } : i \in DOMAIN entries }

\* category_from_text(f"{brand} {product}"): the categories with a synonym
\* in the lower-cased text; no synonym occurs in either brand
category_from_text(brand, product) ==
    CASE product = "Trail Chair" -> { "chair" }
      [] product = "X1 Pro" -> {}

\* bool(a and b and (a & b))
categories_intersect(a, b) == a # {} /\ b # {} /\ a \cap b # {}

\* the warning of the visual-hints block: vision_cats is
\* set(vision_category_tags or []), as given
mismatch_warnings(typed_cats, vision_cats) ==
    IF vision_cats # {} /\ typed_cats # {} /\ ~categories_intersect(typed_cats, vision_cats)
    THEN << "Reference video category does not match product category" >>
    ELSE << >>

\* the dict research_product returns
research_record(raw, consensus, warnings) ==
    [ sources |-> UrlsOf(WithSources(consensus.specs)) \cup UrlsOf(WithSources(consensus.features)),
      features_detailed |-> WithSources(consensus.features),
      specs_detailed |-> WithSources(consensus.specs),
      disclaimers |-> Take(dedupe(DisclaimerValues(raw)), 10),
      visual_hints |-> << >>,
      warnings |-> warnings ]

\* no dict: the call has not returned
NoRecord ==
    [ sources |-> {}, features_detailed |-> << >>, specs_detailed |-> << >>,
      disclaimers |-> << >>, visual_hints |-> << >>, warnings |-> << >> ]

\* warnings after the queries are built
first_warnings(brand) ==
    IF brand = "" THEN << "Missing brand/product name" >> ELSE << >>

\* ------------------------------------------------------------ the inputs
\* Pages of three hosts: the brand's own site, a retailer of RETAIL_HOST_HINTS,
\* and a generic page.
Sources == { "acme.com", "amazon.com", "gearblog.net" }

\* score of a candidate page, "2.0 + bias - link_density" with no links on the page
RetailHosts == { "amazon.com" }

PageScore(url) == 2 + (IF url \in RetailHosts \cup ManufacturerUrls THEN 2 ELSE 0)

\* kind of the Claim research_product builds for a key
KindOf(key) == IF key \in { "feature", "disclaimer" } THEN key ELSE "spec"

ClaimsFor(pairs, hosts) ==
    { Claim(p[1], p[2], src, KindOf(p[1]), PageScore(src)) : p \in pairs, src \in hosts }

\* What the pages of a research request can yield: numeric and textual specs,
\* features and disclaimers, a little of each, or one weight in several units.
Requests == { "specs", "phrases", "mixed", "masses" }

Extractable(request) ==
    CASE request = "specs" ->
           ClaimsFor({ << "weight", W095 >>, << "weight", W11 >> }, Sources)
             \cup ClaimsFor({ << "materials", Steel >>, << "materials", Nylon >> },
                            { "acme.com", "gearblog.net" })
      [] request = "phrases" ->
           ClaimsFor({ << "feature", MeshA >>, << "feature", MeshB >> }, Sources)
             \cup ClaimsFor({ << "disclaimer", Overload >> }, { "acme.com", "gearblog.net" })
      [] request = "mixed" ->
           ClaimsFor({ << "weight", W095 >>, << "feature", MeshB >>, << "disclaimer", Overload >> },
                     { "acme.com", "gearblog.net" })
      [] request = "masses" ->
           ClaimsFor({ << "weight", W22lb >>, << "weight", W1kg >>, << "weight", W5kg >> },
                     { "amazon.com", "gearblog.net" })

\* thresholds a caller passes, in hundredths (the default is 0.6)
MinConfidences == { 50, 60, 70 }

\* ------------------------------------------------------------------ state
VARIABLES
    request,          \* which research request this is
    ureg,             \* UREG is a UnitRegistry (TRUE) or None (FALSE)
    claims,           \* raw_claims, the list handed to consolidate_claims
    pc,               \* "collect" while claims are appended, "done" after consolidation
    min_confidence,   \* argument of the consolidate_claims call
    manufacturer_fn,  \* argument is_manufacturer of the call
    out,              \* the dict consolidate_claims returned
    unit_key,         \* argument key of a _normalize_units call
    unit_value,       \* argument value of that call
    unit_pc,          \* "input" while the value is put together, "returned" after the call
    unit_ret,         \* how the call ended
    ddg,              \* the frame of a ddg_search_multi call
    gem,              \* the frame of a gemini_product_info call
    res,              \* the frame of a research_product call
    fet,              \* the frame of a fetch_html call
    val,              \* the frame of a validator call
    ext,              \* the frame of an _extract_json call
    seg,              \* the frame of a propose_scene_candidates call
    rep               \* the validate-and-repair passage: LLM answer, issues, JSON used

unit_vars == << unit_key, unit_value, unit_pc, unit_ret >>

vars ==
    << request, ureg, claims, pc, min_confidence, manufacturer_fn, out, unit_vars, ddg, gem, res, fet, val, ext, seg, rep >>

NoOut == [ specs |-> << >>, features |-> << >>, disclaimers |-> << >>,
           claims |-> << >>, notes |-> << >> ]

NoRet == [ raised |-> FALSE, value |-> << >> ]

\* no _normalize_units call is being followed
UnitIdle ==
    /\ unit_key = ""
    /\ unit_value = << >>
    /\ unit_pc = "idle"
    /\ unit_ret = NoRet

\* no ddg_search_multi call is being followed
DdgIdle ==
    ddg = [ pc |-> "idle", loaded |-> FALSE, max_results |-> 0, nq |-> 0,
            q |-> 0, n |-> 0, hits |-> << >>, out |-> << >> ]

\* no gemini_product_info call is being followed
GeminiIdle ==
    gem = [ pc |-> "idle", hint |-> << >>, prompt |-> gemini_prompt(resolve_category(<< >>)),
            i |-> 0, tried |-> << >>, answers |-> << >>, last_err |-> "",
            result |-> gemini_error("") ]

\* no research_product call is being followed
ResearchIdle ==
    res = [ pc |-> "idle", caller |-> "", brand |-> "", product |-> "", tags |-> {},
            override |-> "",
            requests_loaded |-> FALSE, hits |-> << >>, i |-> 0, fetched |-> << >>,
            candidates |-> << >>, raw_claims |-> << >>, warnings |-> << >>,
            exc |-> "", step |-> "", record |-> NoRecord ]

\* no fetch_html call is being followed
FetchIdle ==
    fet = [ pc |-> "idle", fn |-> "", playwright |-> FALSE, in_loop |-> FALSE,
            rendered |-> None, requests_loaded |-> FALSE, resp |-> None,
            calls |-> << >>, ret |-> None, exc |-> "" ]

\* an analyzer JSON and a script JSON with nothing in them
NoAnalyzerJson ==
    [ video_metadata |-> [ is_dict |-> TRUE, duration_s |-> JMissing, aspect_ratio |-> "" ],
      global_signals |-> [ is_dict |-> TRUE, speech_presence |-> "" ],
      archetype |-> "", confidence |-> JMissing, phases_is_list |-> TRUE, phases |-> << >>,
      visible_product_features |-> "list" ]

NoScriptJson == [ script |-> "missing", is_list |-> TRUE, scenes |-> << >> ]

\* no validator call is being followed
ValidateIdle ==
    val = [ pc |-> "idle", which |-> "", aj |-> NoAnalyzerJson, sj |-> NoScriptJson,
            target |-> 0, ret |-> Returned(<< >>) ]

\* no _extract_json call is being followed
ExtractIdle == ext = [ pc |-> "idle", text |-> << >>, ret |-> RawDict(<< >>) ]

\* no propose_scene_candidates call is being followed
ScenesIdle == seg = [ pc |-> "idle", duration |-> 0, key_ts |-> << >>, motion_vals |-> << >>,
                      out |-> << >> ]

\* no validate-and-repair passage is being followed
RepairIdle ==
    rep = [ pc |-> "idle", site |-> "", duration |-> 0, target |-> 0, kind |-> "",
            aj |-> NoAnalyzerJson, sj |-> NoScriptJson, issues |-> << >>,
            llm_calls |-> 0, exc |-> "" ]

Init ==
    /\ request \in Requests
    /\ FetchIdle
    /\ ValidateIdle
    /\ ExtractIdle
    /\ ScenesIdle
    /\ RepairIdle
    /\ ureg \in BOOLEAN
    /\ claims = << >>
    /\ pc = "collect"
    /\ min_confidence = 60
    /\ manufacturer_fn = "default"
    /\ out = NoOut
    /\ UnitIdle
    /\ DdgIdle
    /\ GeminiIdle
    /\ ResearchIdle

\* raw_claims.append(Claim(...))
AppendClaim ==
    /\ pc = "collect"
    /\ Len(claims) < MaxClaims
    /\ \E c \in Extractable(request) : claims' = Append(claims, c)
    /\ UNCHANGED << request, ureg, pc, min_confidence, manufacturer_fn, out, unit_vars, ddg, gem, res, fet, val, ext, seg, rep >>

\* consolidate_claims(claims, brand, min_confidence, is_manufacturer)
Consolidate ==
    /\ pc = "collect"
    /\ \E mc \in MinConfidences, fn \in IsManufacturerFns :
         /\ min_confidence' = mc
         /\ manufacturer_fn' = fn
         /\ out' = consolidate_claims(claims, mc, fn, ureg)
    /\ pc' = "done"
    /\ UNCHANGED << request, ureg, claims, unit_vars, ddg, gem, res, fet, val, ext, seg, rep >>

Next == AppendClaim \/ Consolidate

Spec == Init /\ [][Next]_vars

\* ------------------------------------------------ _normalize_units, alone
\* no consolidate_claims call is being followed
ConsensusIdle ==
    /\ request = "none"
    /\ claims = << >>
    /\ pc = "idle"
    /\ min_confidence = 60
    /\ manufacturer_fn = "default"
    /\ out = NoOut

consensus_vars == << request, claims, pc, min_confidence, manufacturer_fn, out >>

\* longest value handed to _normalize_units
MaxValueLen == 4

\* keys of the mass branch, of the "x" branch and of neither
UnitKeys == { "weight", "dimensions", "materials" }

\* the characters values are made of: "1", ".", " ", "k", "g", "x"
ValueChars == { 49, 46, 32, 107, 103, 120 }

UnitInit ==
    /\ ConsensusIdle
    /\ DdgIdle
    /\ GeminiIdle
    /\ ResearchIdle
    /\ FetchIdle
    /\ ValidateIdle
    /\ ExtractIdle
    /\ ScenesIdle
    /\ RepairIdle
    /\ ureg \in BOOLEAN
    /\ unit_key \in UnitKeys
    /\ unit_value = << >>
    /\ unit_pc = "input"
    /\ unit_ret = NoRet

\* the caller's value grows by one character
TypeValue ==
    /\ unit_pc = "input"
    /\ Len(unit_value) < MaxValueLen
    /\ \E c \in ValueChars : unit_value' = Append(unit_value, c)
    /\ UNCHANGED << consensus_vars, ureg, unit_key, unit_pc, unit_ret, ddg, gem, res, fet, val, ext, seg, rep >>

\* _normalize_units(key, value)
NormalizeUnits ==
    /\ unit_pc = "input"
    /\ unit_ret' = normalize_units_call(ureg, unit_key, unit_value)
    /\ unit_pc' = "returned"
    /\ UNCHANGED << consensus_vars, ureg, unit_key, unit_value, ddg, gem, res, fet, val, ext, seg, rep >>

UnitNext == TypeValue \/ NormalizeUnits

UnitSpec == UnitInit /\ [][UnitNext]_vars

\* ------------------------------------------------ ddg_search_multi, alone
\* largest max_results and longest query list a caller passes
MaxResultsArg == 3
MaxQueries == 2

\* the URLs the search engine knows; NoUrl stands for a result that has
\* neither "href" nor "url"
HitUrls == { "acme.com/p", "amazon.com/dp", "gearblog.net/review" }
NoUrl == ""

DdgInit ==
    /\ ConsensusIdle
    /\ UnitIdle
    /\ GeminiIdle
    /\ ResearchIdle
    /\ FetchIdle
    /\ ValidateIdle
    /\ ExtractIdle
    /\ ScenesIdle
    /\ RepairIdle
    /\ ureg = FALSE
    /\ \E loaded \in BOOLEAN, m \in 1..MaxResultsArg, nq \in 1..MaxQueries :
         ddg = [ pc |-> "loop", loaded |-> loaded, max_results |-> m, nq |-> nq,
                 q |-> 1, n |-> 0, hits |-> << >>, out |-> << >> ]

\* one more result of ddgs.text(q, max_results=per): appended when it has a url
DdgYield ==
    /\ ddg.pc = "loop"
    /\ ddg.loaded
    /\ ddg.q <= ddg.nq
    /\ ddg.n < ddg_per(ddg.max_results, ddg.nq)
    /\ \E u \in HitUrls \cup { NoUrl } :
         ddg' = [ ddg EXCEPT !.n = @ + 1,
                             !.hits = IF u = NoUrl THEN @ ELSE Append(@, u) ]
    /\ UNCHANGED << consensus_vars, ureg, unit_vars, gem, res, fet, val, ext, seg, rep >>

\* the results of the current query are exhausted: the next query is sent
DdgNextQuery ==
    /\ ddg.pc = "loop"
    /\ ddg.loaded
    /\ ddg.q <= ddg.nq
    /\ ddg' = [ ddg EXCEPT !.q = @ + 1, !.n = 0 ]
    /\ UNCHANGED << consensus_vars, ureg, unit_vars, gem, res, fet, val, ext, seg, rep >>

\* DDGS is None, or the loop is over, or DDGS raised and the exception was
\* passed over: the hits so far are deduplicated and cut to max_results
DdgReturn ==
    /\ ddg.pc = "loop"
    /\ ddg' = [ ddg EXCEPT !.pc = "returned",
                           !.out = ddg_return(ddg.loaded, ddg.hits, ddg.max_results) ]
    /\ UNCHANGED << consensus_vars, ureg, unit_vars, gem, res, fet, val, ext, seg, rep >>

DdgNext == DdgYield \/ DdgNextQuery \/ DdgReturn

DdgSpec == DdgInit /\ [][DdgNext]_vars

\* --------------------------------------------- gemini_product_info, alone
\* category hints a caller passes: none, a profile key, an alias with a blank
\* and a capital, another profile key, an unknown category
CategoryHints ==
    { << >>,
      \* "headphones"
      << 104, 101, 97, 100, 112, 104, 111, 110, 101, 115 >>,
      \* " Headset"
      << 32, 72, 101, 97, 100, 115, 101, 116 >>,
      \* "portable power station"
      << 112, 111, 114, 116, 97, 98, 108, 101, 32, 112, 111, 119, 101, 114, 32,
         115, 116, 97, 116, 105, 111, 110 >>,
      \* "toaster"
      << 116, 111, 97, 115, 116, 101, 114 >> }

\* feature texts the model may answer with
CandidateTexts ==
    { \* "500Wh LiFePO4 battery"
      << 53, 48, 48, 87, 104, 32, 76, 105, 70, 101, 80, 79, 52, 32, 98, 97, 116,
         116, 101, 114, 121 >>,
      \* "40mm drivers with ANC"
      << 52, 48, 109, 109, 32, 100, 114, 105, 118, 101, 114, 115, 32, 119, 105,
         116, 104, 32, 65, 78, 67 >>,
      \* "Bluetooth 5.3"
      << 66, 108, 117, 101, 116, 111, 111, 116, 104, 32, 53, 46, 51 >> }

\* longest features list in an answer
MaxFeatures == 2

FeatureLists == UNION { [ 1..n -> CandidateTexts ] : n \in 1..MaxFeatures }

\* what one generate_content call can lead to: an exception of the API, a text
\* json.loads rejects, or the parsed JSON object
GeminiResponses ==
    { [ kind |-> "api_error", data |-> gemini_error("") ],
      [ kind |-> "not_json", data |-> gemini_error("") ],
      [ kind |-> "data", data |-> [ status |-> "NOT_FOUND", features |-> << >>, error |-> "" ] ] }
    \cup { [ kind |-> "data", data |-> [ status |-> "OK", features |-> f, error |-> "" ] ] :
             f \in FeatureLists }

GeminiInit ==
    /\ ConsensusIdle
    /\ UnitIdle
    /\ DdgIdle
    /\ ResearchIdle
    /\ FetchIdle
    /\ ValidateIdle
    /\ ExtractIdle
    /\ ScenesIdle
    /\ RepairIdle
    /\ ureg = FALSE
    /\ \E h \in CategoryHints :
         gem = [ pc |-> "loop", hint |-> h, prompt |-> gemini_prompt(resolve_category(h)),
                 i |-> 1, tried |-> << >>, answers |-> << >>, last_err |-> "",
                 result |-> gemini_error("") ]

\* one turn of "for m in CANDIDATE_MODELS": the parsed answer is returned as
\* it is, an exception is noted and the next model is tried
GeminiTry ==
    /\ gem.pc = "loop"
    /\ gem.i <= Len(CANDIDATE_MODELS)
    /\ \E r \in GeminiResponses :
         gem' = IF r.kind = "data"
                THEN [ gem EXCEPT !.pc = "returned", !.result = r.data,
                                  !.tried = Append(@, CANDIDATE_MODELS[gem.i]),
                                  !.answers = Append(@, r) ]
                ELSE [ gem EXCEPT !.i = @ + 1, !.last_err = r.kind,
                                  !.tried = Append(@, CANDIDATE_MODELS[gem.i]),
                                  !.answers = Append(@, r) ]
    /\ UNCHANGED << consensus_vars, ureg, unit_vars, ddg, res, fet, val, ext, seg, rep >>

\* every model failed
GeminiGiveUp ==
    /\ gem.pc = "loop"
    /\ gem.i > Len(CANDIDATE_MODELS)
    /\ gem' = [ gem EXCEPT !.pc = "returned", !.result = gemini_error(gem.last_err) ]
    /\ UNCHANGED << consensus_vars, ureg, unit_vars, ddg, res, fet, val, ext, seg, rep >>

GeminiNext == GeminiTry \/ GeminiGiveUp

GeminiSpec == GeminiInit /\ [][GeminiNext]_vars

\* ------------------------------------------------ research_product, a call
\* most search hits of one call
MaxHits == 2

\* the pages the search engine knows
PageUrls == { "acme.com/p", "amazon.com/dp", "gearblog.net/review", "reddit.com/r/gear" }

\* product names with and without a category synonym, and the tags the
\* vision step passes as vision_category_tags
Products == { "Trail Chair", "X1 Pro" }
VisionTagSets == { {}, { "chair" }, { "Chair" }, { "headphones" } }

RECURSIVE SeqsUpTo(_, _)
SeqsUpTo(S, n) ==
    IF n = 0 THEN { << >> }
    ELSE SeqsUpTo(S, n - 1) \cup { Append(s, x) : s \in { t \in SeqsUpTo(S, n - 1) : Len(t) = n - 1 }, x \in S }

\* how the plain GET of a page can end
Responses ==
    { [ kind |-> "error", status |-> 0, ctype |-> "", body |-> "" ],
      [ kind |-> "timeout", status |-> 0, ctype |-> "", body |-> "" ],
      [ kind |-> "response", status |-> 404, ctype |-> "text/html", body |-> "error_page" ],
      [ kind |-> "response", status |-> 200, ctype |-> "application/pdf", body |-> "pdf" ],
      [ kind |-> "response", status |-> 200, ctype |-> "text/html", body |-> "product" ],
      [ kind |-> "response", status |-> 200, ctype |-> "text/html", body |-> "other" ] }

\* get_html is None: nothing is rendered
NoRender == [ kind |-> "absent", long |-> FALSE ]

\* the claims of the PDF search: none, or the weight of the brand's manual
PdfClaimLists ==
    { << >>,
      << ResearchClaim("weight", W095, "acme.com/manual.pdf", "spec", 30) >>,
      << ResearchClaim("weight", W11, "github.com/acme/manual.pdf", "spec", 30) >> }

ResearchInit ==
    /\ ConsensusIdle
    /\ UnitIdle
    /\ DdgIdle
    /\ GeminiIdle
    /\ FetchIdle
    /\ ValidateIdle
    /\ ExtractIdle
    /\ ScenesIdle
    /\ RepairIdle
    /\ ureg \in BOOLEAN
    /\ \E caller \in { "app", "direct" }, brand \in { "Acme Outdoors", "" },
          product \in Products, tags \in VisionTagSets,
          override \in { "", "gearblog.net/review", "reddit.com/r/gear" }, rl \in BOOLEAN :
         res = [ pc |-> "call", caller |-> caller, brand |-> brand, product |-> product,
                 tags |-> tags, override |-> override,
                 requests_loaded |-> rl, hits |-> << >>, i |-> 0, fetched |-> << >>,
                 candidates |-> << >>, raw_claims |-> << >>, warnings |-> << >>,
                 exc |-> "", step |-> "", record |-> NoRecord ]

\* the call is bound to the signature of research_product
ResearchCall ==
    /\ res.pc = "call"
    /\ res' = IF call_binds(ResearchParams, ResearchRequired, 0, CallerKeywords(res.caller))
              THEN [ res EXCEPT !.pc = "search", !.warnings = first_warnings(res.brand) ]
              ELSE [ res EXCEPT !.pc = "raised", !.exc = "TypeError", !.step = "call" ]
    /\ UNCHANGED << consensus_vars, ureg, unit_vars, ddg, gem, fet, val, ext, seg, rep >>

\* urls: the override alone, or what ddg_search_multi returns
ResearchSearch ==
    /\ res.pc = "search"
    /\ \E loaded \in BOOLEAN, raw \in SeqsUpTo(PageUrls, MaxHits) :
         res' = [ res EXCEPT !.pc = "fetch", !.i = 1,
                             !.hits = IF res.override # "" THEN << res.override >>
                                      ELSE ddg_return(loaded, raw, 10) ]
    /\ UNCHANGED << consensus_vars, ureg, unit_vars, ddg, gem, fet, val, ext, seg, rep >>

\* one turn of "for h in urls": fetch, filter, score
FetchAndFilter(url, resp, html) ==
    res' = [ res EXCEPT !.i = @ + 1,
                        !.fetched = Append(@, [ url |-> url, resp |-> resp, html |-> html ]),
                        !.candidates = fetch_and_filter(@, url, brand_token(res.brand), html) ]

ResearchFetch ==
    /\ res.pc = "fetch"
    /\ res.i <= Len(res.hits)
    /\ \E resp \in Responses :
         FetchAndFilter(res.hits[res.i], resp, fetch_html(res.requests_loaded, NoRender, resp))
    /\ UNCHANGED << consensus_vars, ureg, unit_vars, ddg, gem, fet, val, ext, seg, rep >>

\* the candidates are sorted and parsed into raw_claims, the claims are
\* flagged and the PDF claims added
ResearchParse ==
    /\ res.pc = "fetch"
    /\ res.i > Len(res.hits)
    /\ \E pdf_claims \in PdfClaimLists :
         res' = [ res EXCEPT !.pc = "consensus",
                             !.raw_claims =
                                 FlagManufacturer(ParseCandidates(Take(sort_candidates(res.candidates), 10), ureg),
                                                  brand_token(res.brand)) \o pdf_claims ]
    /\ UNCHANGED << consensus_vars, ureg, unit_vars, ddg, gem, fet, val, ext, seg, rep >>

\* consensus = consolidate_claims(raw_claims, brand_token=brand_token), and
\* the return of the record when the call went through
ResearchConsensus ==
    /\ res.pc = "consensus"
    /\ res' = IF call_binds(ConsolidateParams, ConsolidateRequired,
                            ConsensusCallPositional, ConsensusCallKeywords)
              THEN [ res EXCEPT !.pc = "returned", !.step = "return",
                                !.record = research_record(res.raw_claims,
                                               consolidate_claims(res.raw_claims, 60,
                                                   ConsensusCallManufacturerFn, ureg),
                                               res.warnings
                                                 \o mismatch_warnings(
                                                        category_from_text(res.brand, res.product),
                                                        res.tags)) ]
              ELSE [ res EXCEPT !.pc = "raised", !.exc = "TypeError", !.step = "consensus" ]
    /\ UNCHANGED << consensus_vars, ureg, unit_vars, ddg, gem, fet, val, ext, seg, rep >>

ResearchNext ==
    ResearchCall \/ ResearchSearch \/ ResearchFetch \/ ResearchParse \/ ResearchConsensus

ResearchSpec == ResearchInit /\ [][ResearchNext]_vars

\* ------------------------------------------------------- fetch_html, a call
\* what rendering the page yields when it is tried: a full page, a page of
\* no more than 500 characters, or None (playwright missing, or an exception)
RenderOutcomes ==
    { [ kind |-> "html", long |-> TRUE, status |-> 200, body |-> "product" ],
      [ kind |-> "html", long |-> FALSE, status |-> 200, body |-> "other" ],
      None }

\* the two functions of that name
FetchFunctions == { "fetcher", "product_research" }

FetchInit ==
    /\ ConsensusIdle
    /\ UnitIdle
    /\ DdgIdle
    /\ GeminiIdle
    /\ ResearchIdle
    /\ ValidateIdle
    /\ ExtractIdle
    /\ ScenesIdle
    /\ RepairIdle
    /\ ureg = FALSE
    /\ \E fn \in FetchFunctions, pw \in BOOLEAN, lp \in BOOLEAN, rd \in RenderOutcomes,
          rl \in BOOLEAN, resp \in Responses :
         fet = [ pc |-> "call", fn |-> fn, playwright |-> pw, in_loop |-> lp,
                 rendered |-> rd, requests_loaded |-> rl, resp |-> resp,
                 calls |-> << >>, ret |-> None, exc |-> "" ]

\* "if PLAYWRIGHT_ENABLED:" and "if get_html:"
FetchCall ==
    /\ fet.pc = "call"
    /\ fet' = [ fet EXCEPT !.pc = IF render_tried(fet.fn, fet.playwright) THEN "render" ELSE "get" ]
    /\ UNCHANGED << consensus_vars, ureg, unit_vars, ddg, gem, res, val, ext, seg, rep >>

\* the rendering fetch. In fetcher.py asyncio.run raises RuntimeError when an
\* event loop is running in the thread, and so does run_until_complete of the
\* new loop in the handler: the exception leaves fetch_html
FetchRender ==
    /\ fet.pc = "render"
    /\ fet' = IF fet.fn = "fetcher" /\ fet.in_loop
              THEN [ fet EXCEPT !.pc = "raised", !.exc = "RuntimeError",
                                !.calls = Append(@, "render") ]
              ELSE IF render_used(fet.fn, fet.rendered)
              THEN [ fet EXCEPT !.pc = "returned", !.ret = fet.rendered,
                                !.calls = Append(@, "render") ]
              ELSE [ fet EXCEPT !.pc = "get", !.calls = Append(@, "render") ]
    /\ UNCHANGED << consensus_vars, ureg, unit_vars, ddg, gem, res, val, ext, seg, rep >>

\* the plain GET, sent only when requests was imported
FetchGet ==
    /\ fet.pc = "get"
    /\ fet' = [ fet EXCEPT !.pc = "returned",
                           !.calls = IF fet.requests_loaded THEN Append(@, "get") ELSE @,
                           !.ret = plain_get_of(fet.fn, fet.requests_loaded, fet.resp) ]
    /\ UNCHANGED << consensus_vars, ureg, unit_vars, ddg, gem, res, val, ext, seg, rep >>

FetchNext == FetchCall \/ FetchRender \/ FetchGet

FetchSpec == FetchInit /\ [][FetchNext]_vars

\* ------------------------------------------------------ the validators, a call
\* longest scenes list and longest phases list of a JSON handed to a validator
MaxScenes == 2
MaxPhases == 2

\* start_s and end_s of a scene: 0.0 s, 1.0 s, 4.0 s, 6.0 s, NaN, a string
\* that is no number, a missing key
SceneTimes == { JNumber(0), JNumber(10), JNumber(40), JNumber(60), JNaN, JString, JMissing }

Scenes ==
    [ start_s : SceneTimes, end_s : SceneTimes, action : { "", "Unfold the chair" },
      on_screen_text : { 2, 3 } ]

PhaseTimes == { JNumber(0), JNumber(40), JMissing }

Phases == [ start_s : PhaseTimes, end_s : PhaseTimes ]

\* analyzer JSONs before their phases are listed
AnalyzerJsons ==
    [ video_metadata :
          { [ is_dict |-> FALSE, duration_s |-> JMissing, aspect_ratio |-> "" ],
            [ is_dict |-> TRUE, duration_s |-> JNumber(80), aspect_ratio |-> "9:16" ],
            [ is_dict |-> TRUE, duration_s |-> JString, aspect_ratio |-> "" ] },
      global_signals :
          { [ is_dict |-> TRUE, speech_presence |-> "low" ],
            [ is_dict |-> TRUE, speech_presence |-> "loud" ] },
      archetype : { "SHOWCASE", "NARRATIVE", "VLOG" },
      confidence : { JMissing, JNumber(50), JNumber(150), JString, JNaN },
      phases_is_list : BOOLEAN,
      phases : { << >> },
      visible_product_features : { "list", "string" } ]

ScriptJsons == [ script : { "dict", "missing" }, is_list : BOOLEAN, scenes : { << >> } ]

\* target_runtime_s, in tenths of a second
Targets == { 60 }

ValidateInit ==
    /\ ConsensusIdle
    /\ UnitIdle
    /\ DdgIdle
    /\ GeminiIdle
    /\ ResearchIdle
    /\ FetchIdle
    /\ ExtractIdle
    /\ ScenesIdle
    /\ RepairIdle
    /\ ureg = FALSE
    /\ \/ \E j \in AnalyzerJsons :
            val = [ pc |-> "input", which |-> "analyzer", aj |-> j, sj |-> NoScriptJson,
                    target |-> 0, ret |-> Returned(<< >>) ]
       \/ \E j \in ScriptJsons, t \in Targets :
            val = [ pc |-> "input", which |-> "script", aj |-> NoAnalyzerJson, sj |-> j,
                    target |-> t, ret |-> Returned(<< >>) ]

\* the JSON has one more phase
AppendPhase ==
    /\ val.pc = "input"
    /\ val.which = "analyzer"
    /\ val.aj.phases_is_list
    /\ Len(val.aj.phases) < MaxPhases
    /\ \E p \in Phases : val' = [ val EXCEPT !.aj.phases = Append(@, p) ]
    /\ UNCHANGED << consensus_vars, ureg, unit_vars, ddg, gem, res, fet, ext, seg, rep >>

\* the JSON has one more scene
AppendScene ==
    /\ val.pc = "input"
    /\ val.which = "script"
    /\ val.sj.script = "dict"
    /\ val.sj.is_list
    /\ Len(val.sj.scenes) < MaxScenes
    /\ \E s \in Scenes : val' = [ val EXCEPT !.sj.scenes = Append(@, s) ]
    /\ UNCHANGED << consensus_vars, ureg, unit_vars, ddg, gem, res, fet, ext, seg, rep >>

\* validate_analyzer_json(j)
ValidateAnalyzer ==
    /\ val.pc = "input"
    /\ val.which = "analyzer"
    /\ val' = [ val EXCEPT !.pc = "ended", !.ret = validate_analyzer_json(val.aj) ]
    /\ UNCHANGED << consensus_vars, ureg, unit_vars, ddg, gem, res, fet, ext, seg, rep >>

\* validate_script_json(j, target_runtime_s)
ValidateScript ==
    /\ val.pc = "input"
    /\ val.which = "script"
    /\ val' = [ val EXCEPT !.pc = "ended", !.ret = validate_script_json(val.sj, val.target) ]
    /\ UNCHANGED << consensus_vars, ureg, unit_vars, ddg, gem, res, fet, ext, seg, rep >>

ValidateNext == AppendPhase \/ AppendScene \/ ValidateAnalyzer \/ ValidateScript

ValidateSpec == ValidateInit /\ [][ValidateNext]_vars

\* --------------------------------------------------- _extract_json, a call
\* longest text of a model answer
MaxTextLen == 4

\* the characters of an answer: { } [ ] 1 " x and the blank
TextChars == { 123, 125, 91, 93, 49, 34, 120, 32 }

ExtractInit ==
    /\ ConsensusIdle
    /\ UnitIdle
    /\ DdgIdle
    /\ GeminiIdle
    /\ ResearchIdle
    /\ FetchIdle
    /\ ValidateIdle
    /\ ScenesIdle
    /\ RepairIdle
    /\ ureg = FALSE
    /\ ext = [ pc |-> "input", text |-> << >>, ret |-> RawDict(<< >>) ]

\* the answer grows by one character
TypeText ==
    /\ ext.pc = "input"
    /\ Len(ext.text) < MaxTextLen
    /\ \E c \in TextChars : ext' = [ ext EXCEPT !.text = Append(@, c) ]
    /\ UNCHANGED << consensus_vars, ureg, unit_vars, ddg, gem, res, fet, val, seg, rep >>

\* _extract_json(text)
ExtractJson ==
    /\ ext.pc = "input"
    /\ ext' = [ ext EXCEPT !.pc = "returned", !.ret = extract_json(ext.text) ]
    /\ UNCHANGED << consensus_vars, ureg, unit_vars, ddg, gem, res, fet, val, seg, rep >>

ExtractNext == TypeText \/ ExtractJson

ExtractSpec == ExtractInit /\ [][ExtractNext]_vars

\* ---------------------------------------- propose_scene_candidates, a call
\* most keyframes of a clip
MaxKeyframes == 3

\* clip lengths: 1 s, 5 s, 5.004 s, 6.5 s, 9 s
Durations == { 1000, 5000, 5004, 6500, 9000 }

\* times of keyframes and the motion measured at them
KeyTimes == { 0, 1500, 3000, 4500 }
MotionVals == { 0, 50 }

ScenesInit ==
    /\ ConsensusIdle
    /\ UnitIdle
    /\ DdgIdle
    /\ GeminiIdle
    /\ ResearchIdle
    /\ FetchIdle
    /\ ValidateIdle
    /\ ExtractIdle
    /\ RepairIdle
    /\ ureg = FALSE
    /\ \E d \in Durations :
         seg = [ pc |-> "input", duration |-> d, key_ts |-> << >>, motion_vals |-> << >>,
                 out |-> << >> ]

\* one more keyframe of the clip, later than the ones before it
AppendKeyframe ==
    /\ seg.pc = "input"
    /\ Len(seg.key_ts) < MaxKeyframes
    /\ \E t \in KeyTimes, m \in MotionVals :
         /\ t <= seg.duration
         /\ seg.key_ts # << >> => t > seg.key_ts[Len(seg.key_ts)]
         /\ seg' = [ seg EXCEPT !.key_ts = Append(@, t), !.motion_vals = Append(@, m) ]
    /\ UNCHANGED << consensus_vars, ureg, unit_vars, ddg, gem, res, fet, val, ext, rep >>

\* propose_scene_candidates(duration, key_ts, motion_vals)
ProposeScenes ==
    /\ seg.pc = "input"
    /\ seg' = [ seg EXCEPT !.pc = "returned",
                           !.out = propose_scene_candidates(seg.duration, seg.key_ts,
                                                            seg.motion_vals) ]
    /\ UNCHANGED << consensus_vars, ureg, unit_vars, ddg, gem, res, fet, val, ext, rep >>

ScenesNext == AppendKeyframe \/ ProposeScenes

ScenesSpec == ScenesInit /\ [][ScenesNext]_vars

\* ------------------------------------------- validate and repair, a passage
\* the three places that validate an LLM answer and ask for a repair:
\* analyze_reference_video of analyzer.py, and the analysis and the script
\* steps of app.py
RepairSites == { "analyzer.py", "app.analyze", "app.script" }

\* clip durations in tenths of a second, under and over the 10 s of the
\* fallback segmentation
ClipDurations == { 80, 120 }

\* an analysis the validator accepts
GoodAnalysis ==
    [ video_metadata |-> [ is_dict |-> TRUE, duration_s |-> JNumber(80), aspect_ratio |-> "9:16" ],
      global_signals |-> [ is_dict |-> TRUE, speech_presence |-> "low" ],
      archetype |-> "SHOWCASE", confidence |-> JNumber(50), phases_is_list |-> TRUE,
      phases |-> << [ start_s |-> JNumber(0), end_s |-> JNumber(40) ] >>,
      visible_product_features |-> "list" ]

\* the analyses the model may answer with: the good one, an unknown
\* archetype, a confidence out of range, a confidence in words, no
\* video_metadata keys, a video_metadata that is no dict, no phases
AnalyzerAnswers ==
    { GoodAnalysis,
      [ GoodAnalysis EXCEPT !.archetype = "VLOG" ],
      [ GoodAnalysis EXCEPT !.confidence = JNumber(150) ],
      [ GoodAnalysis EXCEPT !.confidence = JString ],
      [ GoodAnalysis EXCEPT !.video_metadata =
            [ is_dict |-> TRUE, duration_s |-> JMissing, aspect_ratio |-> "" ] ],
      [ GoodAnalysis EXCEPT !.video_metadata =
            [ is_dict |-> FALSE, duration_s |-> JMissing, aspect_ratio |-> "" ] ],
      [ GoodAnalysis EXCEPT !.phases = << >> ] }

\* a script the validator accepts for a target of 6.0 s
GoodScript ==
    [ script |-> "dict", is_list |-> TRUE,
      scenes |-> << [ start_s |-> JNumber(0), end_s |-> JNumber(60),
                      action |-> "Unfold the chair", on_screen_text |-> 2 ] >> ]

\* the scripts the model may answer with: the good one, no "script" object,
\* a scene that ends 5 s early, a scene without action
ScriptAnswers ==
    { GoodScript,
      [ GoodScript EXCEPT !.script = "missing" ],
      [ GoodScript EXCEPT !.scenes[1].end_s = JNumber(10) ],
      [ GoodScript EXCEPT !.scenes[1].action = "" ] }

\* what gemini_json or openai_json returns at a site: a JSON object, or the
\* JSON array _extract_json passes on
LlmAnswers(site) ==
    { [ kind |-> "array", aj |-> NoAnalyzerJson, sj |-> NoScriptJson ] }
      \cup (IF site = "app.script"
            THEN { [ kind |-> "object", aj |-> NoAnalyzerJson, sj |-> s ] : s \in ScriptAnswers }
            ELSE { [ kind |-> "object", aj |-> a, sj |-> NoScriptJson ] : a \in AnalyzerAnswers })

RepairInit ==
    /\ ConsensusIdle
    /\ UnitIdle
    /\ DdgIdle
    /\ GeminiIdle
    /\ ResearchIdle
    /\ FetchIdle
    /\ ValidateIdle
    /\ ExtractIdle
    /\ ScenesIdle
    /\ ureg = FALSE
    /\ \E site \in RepairSites, d \in ClipDurations, t \in Targets :
         rep = [ pc |-> "generate", site |-> site, duration |-> d, target |-> t, kind |-> "",
                 aj |-> NoAnalyzerJson, sj |-> NoScriptJson, issues |-> << >>,
                 llm_calls |-> 0, exc |-> "" ]

\* the first LLM call; in the analysis step of app.py the derived signals are
\* attached to the answer before it is validated
RepairGenerate ==
    /\ rep.pc = "generate"
    /\ \E a \in LlmAnswers(rep.site) :
         rep' = IF rep.site = "app.analyze" /\ (a.kind = "array" \/ attach_signals_raises(a.aj))
                THEN [ rep EXCEPT !.pc = "raised", !.exc = "AttributeError", !.kind = a.kind,
                                  !.aj = a.aj, !.llm_calls = 1 ]
                ELSE [ rep EXCEPT !.pc = "validate", !.kind = a.kind, !.sj = a.sj,
                                  !.llm_calls = 1,
                                  !.aj = IF rep.site = "app.analyze"
                                         THEN attach_signals(a.aj, rep.duration) ELSE a.aj ]
    /\ UNCHANGED << consensus_vars, ureg, unit_vars, ddg, gem, res, fet, val, ext, seg >>

\* "issues = validate_analyzer_json(raw)", "s_issues = validate_script_json(...)":
\* j.get raises AttributeError on an array, and an exception of the validator
\* leaves the step
RepairValidate ==
    /\ rep.pc = "validate"
    /\ LET r == site_validator(rep.site, rep.aj, rep.sj, rep.target)
       IN  rep' = IF rep.kind = "array"
                  THEN [ rep EXCEPT !.pc = "raised", !.exc = "AttributeError" ]
                  ELSE IF r.raised # ""
                  THEN [ rep EXCEPT !.pc = "raised", !.exc = r.raised ]
                  ELSE [ rep EXCEPT !.pc = IF r.errs # << >> THEN "repair" ELSE "finish",
                                    !.issues = r.errs ]
    /\ UNCHANGED << consensus_vars, ureg, unit_vars, ddg, gem, res, fet, val, ext, seg >>

\* "if issues:" one call with the fix prompt; its answer replaces the JSON
\* and is not validated
RepairCall ==
    /\ rep.pc = "repair"
    /\ \E a \in LlmAnswers(rep.site) :
         rep' = [ rep EXCEPT !.pc = "finish", !.kind = a.kind, !.aj = a.aj, !.sj = a.sj,
                             !.llm_calls = @ + 1 ]
    /\ UNCHANGED << consensus_vars, ureg, unit_vars, ddg, gem, res, fet, val, ext, seg >>

\* what follows the "if": analyzer.py attaches its signals and returns raw,
\* app.py applies the fallback segmentation and shows the analysis, or shows
\* the script
RepairFinish ==
    /\ rep.pc = "finish"
    /\ rep' = IF rep.site = "app.script"
              THEN [ rep EXCEPT !.pc = "used" ]
              ELSE IF rep.kind = "array"
              THEN [ rep EXCEPT !.pc = "raised", !.exc = "AttributeError" ]
              ELSE IF rep.site = "app.analyze"
              THEN [ rep EXCEPT !.pc = "used", !.aj = fallback_segmentation(@, rep.duration) ]
              ELSE IF attach_low_level_exc(rep.aj) # ""
              THEN [ rep EXCEPT !.pc = "raised", !.exc = attach_low_level_exc(rep.aj) ]
              ELSE [ rep EXCEPT !.pc = "used", !.aj = attach_low_level(@, rep.duration) ]
    /\ UNCHANGED << consensus_vars, ureg, unit_vars, ddg, gem, res, fet, val, ext, seg >>

RepairNext == RepairGenerate \/ RepairValidate \/ RepairCall \/ RepairFinish

RepairSpec == RepairInit /\ [][RepairNext]_vars

\* ============================================================== properties
Done == pc = "done"

\* the entries of a returned list
Entries(lst) == Range(lst)

AcceptedEntries == Entries(out.specs) \cup Entries(out.features) \cup Entries(out.disclaimers)

\* an entry lists a source the call's is_manufacturer recognises
HasManufacturerSource(e) ==
    \E i \in DOMAIN e.sources : is_manufacturer(manufacturer_fn, e.sources[i].url)

\* the claims of one key, in input order
ClaimsOfKey(k) == by_key(claims, k)

\* the normalised value of every claim of a key, as its branch normalises it
NormsOfKey(k) ==
    IF is_numeric_like(k) THEN UnitNorms(ClaimsOfKey(k), ureg) ELSE PhraseNorms(ClaimsOfKey(k))

\* the value groups given those norms: the sets of positions, in ClaimsOfKey(k),
\* of the claims whose normalised values are equal
GroupsByNorm(norms) == { { j \in DOMAIN norms : norms[j] = norms[i] } : i \in DOMAIN norms }

ValueGroups(k) == GroupsByNorm(NormsOfKey(k))

\* the source cards of the claims of key k at the positions g
GroupSources(k, g) == SourcesOf(SelectIdx(ClaimsOfKey(k), g, 1))

\* the groups a spec entry can stand for: those whose source cards it lists
WinnersAmong(cs, groups, e) == { g \in groups : SourcesOf(SelectIdx(cs, g, 1)) = e.sources }

WinnerGroups(e) == WinnersAmong(ClaimsOfKey(e.key), ValueGroups(e.key), e)

GroupHasManufacturer(k, g) ==
    \E i \in g : is_manufacturer(manufacturer_fn, ClaimsOfKey(k)[i].source)

\* member count plus manufacturer bonus, in tenths
ScoreAmong(cs, g) ==
    10 * Cardinality(g)
      + (IF \E i \in g : is_manufacturer(manufacturer_fn, cs[i].source) THEN 25 ELSE 0)

GroupScore(k, g) == ScoreAmong(ClaimsOfKey(k), g)

\* the entry stands for a group (winners is not empty) and no group of the key
\* scores higher than the groups it stands for
HighestScored(cs, groups, winners) ==
    /\ winners # {}
    /\ \A w \in winners, h \in groups : ScoreAmong(cs, h) <= ScoreAmong(cs, w)

\* ---------------------------------------------------------------------- C1
\* C1: the specs list of the returned record holds at most one entry per key,
\* whatever the claims, the threshold and the manufacturer test were.
C1_OneValuePerKey ==
    Done => \A i, j \in DOMAIN out.specs :
                out.specs[i].key = out.specs[j].key => i = j

\* two sources disagree on a key and the key is in specs
C1_Witness ==
    /\ Done
    /\ \E i, j \in DOMAIN claims :
         /\ claims[i].key = claims[j].key
         /\ claims[i].value # claims[j].value
         /\ \E e \in Entries(out.specs) : e.key = claims[i].key

\* ---------------------------------------------------------------------- C2
\* C2: every accepted feature comes from a group with a manufacturer-sourced
\* member or with at least two sources.
C2_FeaturesCorroborated ==
    Done => \A e \in Entries(out.features) :
                HasManufacturerSource(e) \/ Len(e.sources) >= 2

\* ---------------------------------------------------------------------- C3
\* C3: every accepted spec, feature and disclaimer has a confidence between
\* 0.5 and 0.98.
C3_ConfidenceBounds ==
    Done => \A e \in AcceptedEntries : 50 <= e.confidence /\ e.confidence <= 98

\* both ends are met: a spec at the top of its range, a feature at the bottom
C3_Witness ==
    /\ Done
    /\ \E e \in Entries(out.specs) : e.confidence = 95
    /\ \E e \in Entries(out.features) : e.confidence = 50

\* ---------------------------------------------------------------------- C4
\* C4: no accepted spec, feature or disclaimer has a confidence below the
\* min_confidence of the call.
C4_AboveMinConfidence ==
    Done => \A e \in AcceptedEntries : e.confidence >= min_confidence

\* ---------------------------------------------------------------------- C5
\* C5: for a numeric key the accepted entry is the value group of highest
\* score (member count plus manufacturer bonus) and lists that group only;
\* for the claims (0.95 kg, manufacturer), (0.95 kg, retailer), (1.1 kg, other
\* page) the accepted weight is the 0.95 kg group with confidence >= 0.85.
WeightScenario ==
    << Claim("weight", W095, "acme.com", "spec", PageScore("acme.com")),
       Claim("weight", W095, "amazon.com", "spec", PageScore("amazon.com")),
       Claim("weight", W11, "gearblog.net", "spec", PageScore("gearblog.net")) >>

C5_NumericWinner ==
    Done =>
      /\ \A e \in Entries(out.specs) :
           is_numeric_like(e.key) =>
             HighestScored(ClaimsOfKey(e.key), ValueGroups(e.key), WinnerGroups(e))
      /\ (claims = WeightScenario /\ manufacturer_fn = "brand_domain" /\ min_confidence <= 95) =>
           /\ Len(out.specs) = 1
           /\ out.specs[1].key = "weight"
           /\ out.specs[1].value = W095
           /\ out.specs[1].confidence >= 85
           /\ out.specs[1].sources = SourcesOf(SubSeq(WeightScenario, 1, 2))

C5_Witness ==
    /\ Done
    /\ claims = WeightScenario
    /\ manufacturer_fn = "brand_domain"
    /\ Len(out.specs) = 1
    /\ out.specs[1].value = W095

\* ---------------------------------------------------------------------- C6
\* C6: for every spec key, numeric or not, a value group with a manufacturer
\* member beats a group of the same size without one.
C6_ManufacturerBonusEveryKey ==
    Done => \A e \in Entries(out.specs) :
                \A w \in WinnerGroups(e), h \in ValueGroups(e.key) :
                    ~ ( /\ Cardinality(h) = Cardinality(w)
                        /\ GroupHasManufacturer(e.key, h)
                        /\ ~GroupHasManufacturer(e.key, w) )

\* ---------------------------------------------------------------------- C7
\* C7: among value groups of equal score the one of higher total provenance
\* score wins, and among those of equal provenance the one discovered first.
RECURSIVE SumScores(_, _)
SumScores(lst, g) ==
    IF g = {} THEN 0
    ELSE LET i == CHOOSE x \in g : TRUE
         IN  lst[i].score + SumScores(lst, g \ { i })

Provenance(k, g) == SumScores(ClaimsOfKey(k), g)

FirstSeen(g) == CHOOSE i \in g : \A j \in g : i <= j

C7_TieBreak ==
    Done => \A e \in Entries(out.specs) :
                \A w \in WinnerGroups(e), h \in ValueGroups(e.key) :
                    (h # w /\ GroupScore(e.key, h) = GroupScore(e.key, w)) =>
                        \/ Provenance(e.key, h) < Provenance(e.key, w)
                        \/ /\ Provenance(e.key, h) = Provenance(e.key, w)
                           /\ FirstSeen(w) < FirstSeen(h)

\* ---------------------------------------------------------------------- C8
\* the confidence consolidate_claims computes for the group of claim c in the
\* list cl (threshold 0, so that no computed entry is withheld); -1 when the
\* group of c is a spec group that is not the winner of its key
ConfidenceFor(cl, fn, c) ==
    LET o == consolidate_claims(cl, 0, fn, ureg)
        hits ==
            IF c.key = "feature"
            THEN { e \in Entries(o.features) : norm_phrase(e.text) = norm_phrase(c.value) }
            ELSE IF c.key = "disclaimer"
            THEN { e \in Entries(o.disclaimers) : norm_phrase(e.text) = norm_phrase(c.value) }
            ELSE IF is_numeric_like(c.key)
            THEN { e \in Entries(o.specs) :
                     e.key = c.key /\ e.value = normalize_units(ureg, c.key, c.value) }
            ELSE { e \in Entries(o.specs) :
                     e.key = c.key /\ norm_phrase(e.value) = norm_phrase(c.value) }
    IN  IF hits = {} THEN -1 ELSE (CHOOSE e \in hits : TRUE).confidence

\* longer is old with one more claim d, where d repeats the key and value of
\* a claim of old, from a source that has not asserted them and that fn does
\* not recognise as the manufacturer
Corroborates(old, longer, fn) ==
    /\ Len(longer) = Len(old) + 1
    /\ SubSeq(longer, 1, Len(old)) = old
    /\ LET d == longer[Len(longer)]
       IN  /\ ~is_manufacturer(fn, d.source)
           /\ \E i \in DOMAIN old : old[i].key = d.key /\ old[i].value = d.value
           /\ \A i \in DOMAIN old :
                  (old[i].key = d.key /\ old[i].value = d.value) => old[i].source # d.source

\* C8: appending one more non-manufacturer claim of the same key and value
\* from a new source never lowers the confidence computed for that group,
\* for spec, feature and disclaimer groups alike.
C8_Monotone ==
    [][ \A fn \in IsManufacturerFns :
            Corroborates(claims, claims', fn) =>
                ConfidenceFor(claims', fn, claims'[Len(claims')])
                    >= ConfidenceFor(claims, fn, claims'[Len(claims')]) ]_vars

\* a manufacturer's claim has just been corroborated by another page
C8_Witness ==
    /\ pc = "collect"
    /\ Len(claims) >= 2
    /\ Corroborates(SubSeq(claims, 1, Len(claims) - 1), claims, "brand_domain")
    /\ \E i \in 1..(Len(claims) - 1) :
         /\ claims[i].key = claims[Len(claims)].key
         /\ claims[i].value = claims[Len(claims)].value
         /\ is_manufacturer("brand_domain", claims[i].source)
    /\ ConfidenceFor(SubSeq(claims, 1, Len(claims) - 1), "brand_domain", claims[Len(claims)]) >= 0

\* --------------------------------------------------------------------- C10
\* C10: for an empty claim list the record has empty specs, features and
\* disclaimers and at least one note about the lack of data.
C10_EmptyInputWarns ==
    (Done /\ claims = << >>) =>
        /\ out.specs = << >>
        /\ out.features = << >>
        /\ out.disclaimers = << >>
        /\ Len(out.notes) >= 1

\* --------------------------------------------------------------------- C11
\* a text with letter case and punctuation taken out: lower-cased, every
\* character that is neither a word character nor whitespace dropped,
\* whitespace runs collapsed
RECURSIVE DropPunctuation(_)
DropPunctuation(s) ==
    IF s = << >> THEN << >>
    ELSE (IF IsWord(Head(s)) \/ IsSpace(Head(s)) THEN << Head(s) >> ELSE << >>)
             \o DropPunctuation(Tail(s))

CasePunctFold(s) == Strip(CollapseSpaces(DropPunctuation(Lower(s))))

\* C11: feature texts that differ only in letter case or punctuation are one
\* group, so no two entries of the returned features list have texts that are
\* equal up to case and punctuation.
C11_CasePunctuationMerged ==
    Done => \A i, j \in DOMAIN out.features :
                CasePunctFold(out.features[i].text) = CasePunctFold(out.features[j].text)
                    => i = j

\* --------------------------------------------------------------------- C12
\* the mass a weight value states, in milligrams (1 lb = 453.59237 g)
Milligrams(v) ==
    CASE v = W22lb -> 997903
      [] v = W1kg -> 1000000
      [] v = W5kg -> 5000000
      [] v = W095 -> 950000
      [] v = W11 -> 1100000

\* that mass in hundredths of a kilogram, rounded
RoundedHundredths(v) == (Milligrams(v) + 5000) \div 10000

\* claims of one key are in one value group exactly when the values they are
\* normalised to (norms) are equal, see GroupsByNorm: the groups of the weight
\* claims cs agree with their masses to the hundredth of a kilogram
GroupsAgreeWithMass(cs, norms) ==
    \A i, j \in DOMAIN cs :
        (norms[i] = norms[j]) <=> (RoundedHundredths(cs[i].value) = RoundedHundredths(cs[j].value))

\* weight claims are grouped by their mass to the hundredth of a kilogram
WeightGroupsByMass == GroupsAgreeWithMass(ClaimsOfKey("weight"), NormsOfKey("weight"))

UnitReturned == unit_pc = "returned"

\* a number float() accepts: digits with at most one dot among them
IsNumberText(t) ==
    /\ t # << >>
    /\ \A i \in DOMAIN t : IsDigit(t[i]) \/ t[i] = 46
    /\ \E i \in DOMAIN t : IsDigit(t[i])
    /\ \A i, j \in DOMAIN t : (t[i] = 46 /\ t[j] = 46) => i = j

\* a unit of mass starts at k once the blanks from index j on are passed
UnitFollows(low, j, k) ==
    /\ \A b \in j..(k - 1) : IsSpace(low[b])
    /\ UnitAt(low, k) # ""

\* somewhere in the lower-cased value a parsable number is followed by a
\* recognized unit of mass
HasNumberWithUnit(low) ==
    \E i, j \in DOMAIN low :
        /\ i <= j
        /\ IsNumberText(SubSeq(low, i, j))
        /\ \E k \in (j + 1)..Len(low) : UnitFollows(low, j + 1, k)

DistinctUrls(e) == Cardinality({ e.sources[i].url : i \in DOMAIN e.sources })

ManufacturerBonus(e) == IF HasManufacturerSource(e) THEN 25 ELSE 0

\* the confidence of an entry whose group had one claim per listed URL
ConfidenceBySources(e, kind) ==
    CASE kind = "numeric" -> Min(95, 45 + 15 * DistinctUrls(e) + ManufacturerBonus(e))
      [] kind = "text" -> Min(90, 40 + 20 * DistinctUrls(e) + ManufacturerBonus(e))
      [] kind = "phrase" -> Min(90, 35 + 15 * DistinctUrls(e) + ManufacturerBonus(e))

\* C15: corroboration counts independent sources: claims repeated from one URL
\* count once, so no entry has a confidence above that of one claim per
\* distinct URL, and a feature or disclaimer below the threshold is accepted
\* only with two different URLs.
C15_IndependentSources ==
    Done =>
        /\ \A e \in Entries(out.specs) :
             e.confidence <= ConfidenceBySources(e, IF is_numeric_like(e.key)
                                                    THEN "numeric" ELSE "text")
        /\ \A e \in Entries(out.features) \cup Entries(out.disclaimers) :
             /\ e.confidence <= ConfidenceBySources(e, "phrase")
             /\ ConfidenceBySources(e, "phrase") >= min_confidence \/ DistinctUrls(e) >= 2

\* --------------------------------------------------------------------- C19
DdgReturned == ddg.pc = "returned"

\* the first position of url u in the sequence s
FirstIndex(s, u) == CHOOSE i \in DOMAIN s : s[i] = u /\ \A j \in 1..(i - 1) : s[j] # u

\* C19: ddg_search_multi returns a list with no URL twice, ordered by first
\* occurrence across the queries in the order given, of length at most
\* max_results, and the empty list when the search capability is unavailable.
C19_DedupedInOrder ==
    DdgReturned =>
        /\ \A i, j \in DOMAIN ddg.out : ddg.out[i] = ddg.out[j] => i = j
        /\ \A i \in DOMAIN ddg.out : \E k \in DOMAIN ddg.hits : ddg.hits[k] = ddg.out[i]
        /\ \A i, j \in DOMAIN ddg.out :
             i < j => FirstIndex(ddg.hits, ddg.out[i]) < FirstIndex(ddg.hits, ddg.out[j])
        /\ Len(ddg.out) <= ddg.max_results
        /\ ~ddg.loaded => ddg.out = << >>

\* a URL came back for both queries, and another after it: both are returned,
\* once each
C19_Witness ==
    /\ DdgReturned
    /\ \E i, j \in DOMAIN ddg.hits : i < j /\ ddg.hits[i] = ddg.hits[j]
    /\ Len(ddg.out) = 2
    /\ ddg.q > ddg.nq

\* --------------------------------------------------------------------- C18
\* the marker occurs in the text
Contains(text, marker) == \E k \in DOMAIN text : HasPrefixAt(text, k, marker)

\* the text holds a deny marker of the desired category
HasDenyMarker(text) ==
    \E d \in Range(gem.prompt.deny_markers) : Contains(Lower(text), d)

\* C18: deny takes precedence over allow: no text that holds a deny marker of
\* the desired category is among the accepted features, whatever allow
\* markers it holds ("500Wh LiFePO4 battery" for headphones).
C18_DenyPrecedence ==
    gem.pc = "returned" =>
        \A i \in DOMAIN gem.result.features : ~HasDenyMarker(gem.result.features[i])

\* --------------------------------------------------------------------- C14
\* the research call is over, by a return or by an exception
ResearchEnded == res.pc \in { "returned", "raised" }

\* the call got as far as the consensus step
ReachedConsensus == res.step \in { "consensus", "return" }

\* the disclaimer texts consolidate_claims accepts for the claims collected
AcceptedDisclaimerTexts ==
    { e.text : e \in Range(consolidate_claims(res.raw_claims, 60,
                                              ConsensusCallManufacturerFn, ureg).disclaimers) }

\* C14: once the claims are collected the call returns a record, and every
\* disclaimer of that record is the text of a disclaimer group that
\* consolidate_claims accepted.
C14_DisclaimersCorroborated ==
    (ResearchEnded /\ ReachedConsensus) =>
        /\ res.pc = "returned"
        /\ \A i \in DOMAIN res.record.disclaimers :
             res.record.disclaimers[i] \in AcceptedDisclaimerTexts

\* --------------------------------------------------------------------- C16
\* C16: the research call as the application makes it always ends by
\* returning a record; it never ends in an exception.
C16_ResearchReturns ==
    (ResearchEnded /\ res.caller = "app") => (res.pc = "returned" /\ res.exc = "")

\* --------------------------------------------------------------------- C17
\* C17: in the pipeline, every claim whose source domain holds the brand
\* token is manufacturer-sourced for the consensus step: the call goes
\* through and the is_manufacturer it works with accepts that source.
C17_BrandTokenIsManufacturer ==
    ReachedConsensus =>
        /\ res.exc = ""
        /\ \A i \in DOMAIN res.raw_claims :
             TokenInHost(brand_token(res.brand), domain_of(res.raw_claims[i].source))
                 => is_manufacturer(ConsensusCallManufacturerFn,
                                    domain_of(res.raw_claims[i].source))

\* --------------------------------------------------------------------- C20
\* the request failed: an error, a timeout, a status other than 200 or a
\* content type other than HTML
FetchFailed(resp) ==
    \/ resp.kind \in { "error", "timeout" }
    \/ resp.status # 200
    \/ resp.ctype # "text/html"

\* C20: fetch_html returns None whenever the request fails, and a hit whose
\* fetch returned None contributes no claims.
C20_FailedFetchGivesNothing ==
    /\ \A i \in DOMAIN res.fetched :
         FetchFailed(res.fetched[i].resp) => res.fetched[i].html = None
    /\ \A i \in DOMAIN res.fetched, j \in DOMAIN res.raw_claims :
         res.fetched[i].html = None => res.raw_claims[j].source # res.fetched[i].url

\* --------------------------------------------------------------------- C21
FetchEnded == fet.pc \in { "returned", "raised" }

\* rendering is enabled and yields HTML for the page
RenderingYieldsHtml == fet.playwright /\ ~fet.in_loop /\ fet.rendered.kind = "html"

\* how many plain GETs the call sent
GetsSent == Cardinality({ i \in DOMAIN fet.calls : fet.calls[i] = "get" })

\* C21: fetch_html tries the rendering fetch first: when rendering is enabled
\* and yields HTML no plain GET is issued and the rendered page is returned;
\* when rendering is disabled, unavailable, fails or yields nothing, exactly
\* one plain GET is attempted and its result, HTML or None, is returned
\* (where the HTTP library is installed, so that a GET can be attempted).
C21_RenderingFirst ==
    (FetchEnded /\ fet.requests_loaded) =>
        /\ fet.pc = "returned"
        /\ IF RenderingYieldsHtml
           THEN GetsSent = 0 /\ fet.ret = fet.rendered
           ELSE GetsSent = 1 /\ fet.ret = plain_get_of(fet.fn, TRUE, fet.resp)

\* --------------------------------------------------------------------- C22
\* the record the call would return for the claims collected, had it been
\* given the vision tags t
RecordFor(t) ==
    research_record(res.raw_claims,
                    consolidate_claims(res.raw_claims, 60, ConsensusCallManufacturerFn, ureg),
                    res.warnings \o mismatch_warnings(category_from_text(res.brand, res.product), t))

MismatchWarned ==
    \E i \in DOMAIN res.record.warnings :
        res.record.warnings[i] = "Reference video category does not match product category"

\* C22: vision category tags never influence accepted facts: the call returns
\* a record whose specs, features, disclaimers and sources are the same for
\* every value of vision_category_tags, whose visual_hints is empty, and
\* whose warnings hold the category-mismatch entry exactly when typed
\* categories and vision tags are both non-empty and disjoint.
C22_TagsOnlyWarn ==
    (ResearchEnded /\ ReachedConsensus) =>
        /\ res.pc = "returned"
        /\ \A t \in VisionTagSets :
             /\ RecordFor(t).specs_detailed = res.record.specs_detailed
             /\ RecordFor(t).features_detailed = res.record.features_detailed
             /\ RecordFor(t).disclaimers = res.record.disclaimers
             /\ RecordFor(t).sources = res.record.sources
        /\ res.record.visual_hints = << >>
        /\ MismatchWarned <=>
             /\ category_from_text(res.brand, res.product) # {}
             /\ res.tags # {}
             /\ category_from_text(res.brand, res.product) \cap res.tags = {}

\* --------------------------------------------------------------------- C24
\* the URLs in the sources of the accepted specs and features of the record
AcceptedUrls == UrlsOf(res.record.specs_detailed) \cup UrlsOf(res.record.features_detailed)

\* C24: the call returns a record whose sources are exactly the URLs in the
\* sources of an accepted spec or feature; a page that was fetched but
\* contributed no accepted claim is not listed.
C24_OnlyUsedSources ==
    (ResearchEnded /\ ReachedConsensus) =>
        /\ res.pc = "returned"
        /\ res.record.sources = AcceptedUrls
        /\ \A i \in DOMAIN res.fetched :
             res.fetched[i].url \notin AcceptedUrls => res.fetched[i].url \notin res.record.sources

\* --------------------------------------------------------------------- C25
\* C25: no claim the record is built from originates from a URL whose host
\* matches DENY_HOST_HINTS, whether the URL was a search hit, the
\* product_url_override or a hit of the PDF search.
C25_NoDeniedHostClaims ==
    ReachedConsensus =>
        \A i \in DOMAIN res.raw_claims : is_allowed_host(domain_of(res.raw_claims[i].source))

\* --------------------------------------------------------------------- C26
ValidateEnded == val.pc = "ended"

\* the error entries of the returned list
ReportedErrs == Range(val.ret.errs)

\* C26: the validators report every problem as an entry of the returned list
\* and never raise: a confidence that is no number, and a scene after the
\* first whose start_s is missing or no number, each give an error entry
\* rather than an exception.
C26_ValidatorsNeverRaise ==
    ValidateEnded =>
        /\ val.ret.raised = ""
        /\ (val.which = "analyzer" /\ val.aj.confidence.kind = "string")
              => Err("Missing/invalid 'confidence' in [0,1].", 0) \in ReportedErrs
        /\ val.which = "script" =>
              \A i \in DOMAIN val.sj.scenes :
                  (i > 1 /\ val.sj.scenes[i].start_s.kind \in { "missing", "string" })
                      => Err("Scene invalid start/end.", i) \in ReportedErrs

\* --------------------------------------------------------------------- C29
\* the script passed: validate_script_json returned the empty list
ScriptPassed == ValidateEnded /\ val.which = "script" /\ val.ret = Returned(<< >>)

\* the value is a number, and a number that can be compared (not NaN)
IsNumber(x) == x.kind = "number"

SceneTimed(s) == IsNumber(s.start_s) /\ IsNumber(s.end_s) /\ s.start_s.v < s.end_s.v

\* C29: if validate_script_json(j, T) returns an empty list then
\* j.script.scenes is a non-empty list, the first scene starts at most 0.75 s,
\* every scene has numeric start_s < end_s, a non-empty action and at most 2
\* on_screen_text lines, each scene starts at most 1.0 s after the previous
\* scene ends, and the last scene ends within 2.0 s of T.
C29_PassedScriptIsTimed ==
    ScriptPassed =>
        /\ val.sj.script = "dict" /\ val.sj.is_list /\ val.sj.scenes # << >>
        /\ IsNumber(val.sj.scenes[1].start_s) /\ val.sj.scenes[1].start_s.v <= 7
        /\ \A i \in DOMAIN val.sj.scenes :
             /\ SceneTimed(val.sj.scenes[i])
             /\ val.sj.scenes[i].action # ""
             /\ val.sj.scenes[i].on_screen_text <= 2
             /\ i > 1 => val.sj.scenes[i].start_s.v - val.sj.scenes[i - 1].end_s.v <= 10
        /\ val.sj.scenes[Len(val.sj.scenes)].end_s.v - val.target <= 20
        /\ val.target - val.sj.scenes[Len(val.sj.scenes)].end_s.v <= 20

\* --------------------------------------------------------------------- C27
\* C27: _extract_json returns a dict for every text: the parsed object when
\* the text, or its outermost brace-delimited part, is valid JSON, otherwise
\* {"raw": text}; it never returns a list, a number, a string or null.
C27_AlwaysDict ==
    ext.pc = "returned" =>
        /\ ext.ret.kind = "dict"
        /\ ext.ret.raw <=>
             (json_loads(ext.text) = "invalid" /\ json_loads(brace_match(ext.text)) = "invalid")

\* --------------------------------------------------------------------- C28
GeminiReturned == gem.pc = "returned"

\* the call of the k-th model tried, and the parse of its answer, succeeded
Succeeded(k) == gem.answers[k].kind = "data"

\* C28: gemini_product_info tries gemini-1.5-pro, then gemini-1.5-flash; it
\* returns the parsed JSON of the first model whose call and parse succeed
\* and calls no later model; only when every model failed it returns
\* {"status": "ERROR"} with the last error.
C28_FirstSuccessInOrder ==
    GeminiReturned =>
        /\ gem.tried = SubSeq(<< "gemini-1.5-pro", "gemini-1.5-flash" >>, 1, Len(gem.tried))
        /\ Len(gem.answers) = Len(gem.tried)
        /\ \A k \in 1..(Len(gem.answers) - 1) : ~Succeeded(k)
        /\ IF gem.answers # << >> /\ Succeeded(Len(gem.answers))
           THEN gem.result = gem.answers[Len(gem.answers)].data
           ELSE /\ Len(gem.tried) = 2
                /\ gem.result.status = "ERROR"
                /\ gem.result.error = gem.answers[2].kind

\* the first model failed and the answer of the second was returned
C28_Witness ==
    /\ GeminiReturned
    /\ Len(gem.answers) = 2
    /\ ~Succeeded(1)
    /\ Succeeded(2)
    /\ gem.result.status = "OK"

\* --------------------------------------------------------------------- C30
\* C30: for non-empty key_ts and motion_vals of the same length the segments
\* returned tile the clip: there is one at least, the first starts at 0.0,
\* each starts where the one before it ends, each has end_s > start_s, and
\* the last ends at the duration of the clip (to the hundredth of a second,
\* to which every time is rounded).
C30_SegmentsTile ==
    (seg.pc = "returned" /\ seg.key_ts # << >>) =>
        /\ seg.out # << >>
        /\ seg.out[1].start_s = 0
        /\ \A i \in DOMAIN seg.out :
             /\ seg.out[i].end_s > seg.out[i].start_s
             /\ i > 1 => seg.out[i].start_s = seg.out[i - 1].end_s
        /\ seg.out[Len(seg.out)].end_s = round2(seg.duration)

\* --------------------------------------------------------------------- C23
\* the passage ended with a JSON the pipeline goes on with
RepairUsed == rep.pc = "used"

\* the JSON in use is a JSON object its validator has no issue with
UsedJsonPasses ==
    /\ rep.kind = "object"
    /\ site_validator(rep.site, rep.aj, rep.sj, rep.target) = Returned(<< >>)

\* C23: the analyzer JSON and the script JSON the pipeline finally uses have
\* passed their validator: whenever the validator reported issues a repair
\* call was made, and the JSON used afterwards has no validation issue left.
C23_UsedJsonValidated ==
    RepairUsed =>
        /\ rep.issues # << >> => rep.llm_calls > 1
        /\ UsedJsonPasses

====
